---------------------------- MODULE Spec2Model ----------------------------
(***************************************************************************)
(* A model of the LPWAN protocol simulator (simulation/src): the gateway   *)
(* with its command scheduler and ACK tracker, the network coordinator,    *)
(* the end device and the traffic generator, driven by the virtual clock   *)
(* of the discrete-event engine.  Times are integer milliseconds.          *)
(***************************************************************************)
EXTENDS Integers, Sequences, FiniteSets, TLC

(***************************************************************************)
(* Bounds of the model.                                                    *)
(***************************************************************************)
\* queue_size of the scheduler (gateway.py:45 reads it from the
\* configuration, default 1000), scaled down.
QueueSize == 2
\* How many queue_command calls a run of the scheduler specification makes.
MaxCmds == 3
\* How many times the scheduler specification advances the clock (by two
\* seconds each time).
MaxSchedTicks == 1
MaxRequeueTicks == 2
MaxRequeueCmds == 2
\* How many uplinks the tracker specification records.
MaxTrackerAdds == 4
\* How many commands the gateway issues in the epoch specification: enough
\* for the 8-bit epoch of one command type to wrap.
MaxEpochCmds == 259
\* Among how many of the first commands another command type may be issued.
MaxOtherEpochCmds == 2
\* How many commands the gateway issues in scenario S3.
S3TrafficCommands == 5
\* How many commands the gateway issues in the priority specification.
PriorityTrafficCommandCount == 4
MaxCoapRequests == 5
\* The simulated run: how long it lasts (duration_hours of the configuration)
\* and how many commands and telemetry messages the traffic generator produces.
SimDurationMs == 1210000
MaxTrafficCommands == 2
MaxUplinkMessages == 2

(***************************************************************************)
(* Program constants.                                                      *)
(***************************************************************************)
DefaultQueueSize == 1000  \* gateway.py:45
CmdOverhead == 4          \* gateway.py:97  "4 bytes header overhead"
DefaultMaxPayload == 50   \* gateway.py:66  max_payload default
DefaultMaxRetries == 2    \* gateway.py:465
EpochModulus == 256       \* gateway.py:451
SeqModulus == 65536       \* gateway.py:144, device.py:164
MsPerSecond == 1000       \* gateway.py:479  deadline_s * 1000
NovelBudget == 3          \* gateway.py:279
BaselineBudget == 1       \* gateway.py:279
AckWindowSize == 16       \* gateway.py:178
NovelHeaderSize == 5      \* protocols/novel_lpwan.py:89
MsgTypeCmdResp == 2       \* gateway.py:316
MqttSnPublish == 12       \* gateway.py:349
MqttSnQos1Flags == 32     \* gateway.py:354
CoapVersion == 1          \* gateway.py:393
CoapAck == 2              \* gateway.py:394
CoapCon == 0              \* protocols/coap.py COAP_CON
CoapContent == 69         \* gateway.py:395
PayloadMarker == 255      \* gateway.py:415
MqttSnPublishMinSize == 7 \* protocols/mqtt_sn.py:198
CoapMinSize == 4          \* protocols/coap.py:158
Rx1DelayMs == 1000              \* network.py:51
CleanupIntervalMs == 60000      \* gateway.py:202
CommandProcessingMs == 10       \* device.py:203
UplinkPayloadBytes == 20        \* traffic.py:37
MqttSnUplinkHeaderBytes == 7    \* protocols/mqtt_sn.py:111
CoapUplinkHeaderBytes == 14     \* protocols/coap.py:123-131: 4 + token 4 + option 5 + marker 1
CriticalDeadlineS == 600        \* traffic.py:143
NormalDeadlineS == 3600         \* traffic.py:146
BestEffortDeadlineS == 86400    \* traffic.py:149
DutyCycleWindowMs == 3600000    \* network.py:179
DutyCyclePercent == 1           \* network.py:49  duty_cycle 0.01

None == "None"
Protocols == <<"novel_lpwan", "mqtt_sn", "coap">>   \* run_sim.py create_protocols
ProtocolSet == {Protocols[i] : i \in 1..Len(Protocols)}
Devices == {0, 1}

VARIABLES
    now,               \* env.now, in milliseconds
    queues,            \* CommandScheduler.queues: device -> heap list
    cmd_counter,       \* CommandScheduler.cmd_counter
    device_sessions,   \* Gateway.device_sessions
    commands_expired,  \* Gateway.commands_expired
    pending_acks,      \* AckTracker.pending_acks: device -> (seq_num -> timestamp)
    uplink_count,      \* Gateway.uplink_count
    downlink_count,    \* Gateway.downlink_count
    devices,           \* the EndDevice objects and where their run() stands
    duty_cycle_tracker,\* NetworkSimulator.duty_cycle_tracker
    downlinks,         \* every downlink frame created, with its transmission process
    traffic,           \* the TrafficGenerator processes
    next_cleanup,      \* when Gateway.run() wakes next
    metrics,           \* MetricsCollector.metrics
    uplinks_log,       \* history: every uplink transmission that completed
    applied_log,       \* history: every call of EndDevice._apply_command
    lastOp,            \* history: the last scheduler or codec operation, its arguments and result
    enqueued,          \* device -> the commands enqueued and neither extracted nor swept
    removals,          \* device -> TRUE once a command was extracted or swept
    evictions,         \* device -> how many commands enqueue has trimmed away
    config             \* the configuration run_simulation was started with

schedVars == <<queues, cmd_counter, device_sessions, commands_expired>>
histVars == <<lastOp, enqueued, removals, evictions>>
simVars == <<pending_acks, uplink_count, downlink_count, devices, duty_cycle_tracker,
             downlinks, traffic, next_cleanup, metrics, uplinks_log, applied_log>>
vars == <<now, schedVars, histVars, simVars, config>>

(***************************************************************************)
(* PendingCommand.__lt__ (also the key of sorted() in                      *)
(* get_commands_for_device: the tuple (priority, deadline_ms)).            *)
(***************************************************************************)
Lt(a, b) ==
    IF a.priority # b.priority
    THEN a.priority < b.priority
    ELSE a.deadline_ms < b.deadline_ms

\* Comparison of the (elem, order) pairs heapq.nsmallest works on: tuple
\* comparison looks at the order only when the elements are equal.
LtPair(s, t) ==
    IF s.elem = t.elem THEN s.order < t.order ELSE Lt(s.elem, t.elem)

(***************************************************************************)
(* heapq on a list; position p of the list is element p+1 of the sequence. *)
(***************************************************************************)
RECURSIVE SiftDownLoop(_, _, _, _)
SiftDownLoop(h, startpos, pos, newitem) ==
    IF pos > startpos
    THEN LET parentpos == (pos - 1) \div 2
             parent == h[parentpos + 1]
         IN  IF Lt(newitem, parent)
             THEN SiftDownLoop([h EXCEPT ![pos + 1] = parent], startpos, parentpos, newitem)
             ELSE [h EXCEPT ![pos + 1] = newitem]
    ELSE [h EXCEPT ![pos + 1] = newitem]

SiftDown(h, startpos, pos) == SiftDownLoop(h, startpos, pos, h[pos + 1])

RECURSIVE SiftUpLoop(_, _, _)
SiftUpLoop(h, pos, newitem) ==
    LET endpos == Len(h)
        left == 2 * pos + 1
        right == left + 1
    IN  IF left < endpos
        THEN LET childpos == IF right < endpos /\ ~Lt(h[left + 1], h[right + 1])
                             THEN right ELSE left
             IN  SiftUpLoop([h EXCEPT ![pos + 1] = h[childpos + 1]], childpos, newitem)
        ELSE [heap |-> [h EXCEPT ![pos + 1] = newitem], pos |-> pos]

SiftUp(h, pos) ==
    LET r == SiftUpLoop(h, pos, h[pos + 1])
    IN  SiftDown(r.heap, pos, r.pos)

RECURSIVE HeapifyFrom(_, _)
HeapifyFrom(h, i) == IF i < 0 THEN h ELSE HeapifyFrom(SiftUp(h, i), i - 1)

Heapify(h) == HeapifyFrom(h, (Len(h) \div 2) - 1)

HeapPush(h, item) == SiftDown(Append(h, item), 0, Len(h))

(***************************************************************************)
(* The max-heap variants of heapq, used by nsmallest on (elem, order).     *)
(***************************************************************************)
RECURSIVE SiftDownMaxLoop(_, _, _, _)
SiftDownMaxLoop(h, startpos, pos, newitem) ==
    IF pos > startpos
    THEN LET parentpos == (pos - 1) \div 2
             parent == h[parentpos + 1]
         IN  IF LtPair(parent, newitem)
             THEN SiftDownMaxLoop([h EXCEPT ![pos + 1] = parent], startpos, parentpos, newitem)
             ELSE [h EXCEPT ![pos + 1] = newitem]
    ELSE [h EXCEPT ![pos + 1] = newitem]

RECURSIVE SiftUpMaxLoop(_, _, _)
SiftUpMaxLoop(h, pos, newitem) ==
    LET endpos == Len(h)
        left == 2 * pos + 1
        right == left + 1
    IN  IF left < endpos
        THEN LET childpos == IF right < endpos /\ ~LtPair(h[right + 1], h[left + 1])
                             THEN right ELSE left
             IN  SiftUpMaxLoop([h EXCEPT ![pos + 1] = h[childpos + 1]], childpos, newitem)
        ELSE [heap |-> [h EXCEPT ![pos + 1] = newitem], pos |-> pos]

SiftUpMax(h, pos) ==
    LET r == SiftUpMaxLoop(h, pos, h[pos + 1])
    IN  SiftDownMaxLoop(r.heap, pos, r.pos, r.heap[r.pos + 1])

RECURSIVE HeapifyMaxFrom(_, _)
HeapifyMaxFrom(h, i) == IF i < 0 THEN h ELSE HeapifyMaxFrom(SiftUpMax(h, i), i - 1)

HeapifyMax(h) == HeapifyMaxFrom(h, (Len(h) \div 2) - 1)

HeapReplaceMax(h, item) == SiftUpMax([h EXCEPT ![1] = item], 0)

(***************************************************************************)
(* sorted() / list.sort(): a stable sort.                                  *)
(***************************************************************************)
RECURSIVE InsertStable(_, _)
InsertStable(acc, x) ==
    IF acc = <<>> THEN <<x>>
    ELSE IF Lt(x, Head(acc)) THEN <<x>> \o acc
    ELSE <<Head(acc)>> \o InsertStable(Tail(acc), x)

RECURSIVE StableSort(_)
StableSort(s) ==
    IF s = <<>> THEN <<>>
    ELSE InsertStable(StableSort(SubSeq(s, 1, Len(s) - 1)), s[Len(s)])

RECURSIVE InsertStablePair(_, _)
InsertStablePair(acc, x) ==
    IF acc = <<>> THEN <<x>>
    ELSE IF LtPair(x, Head(acc)) THEN <<x>> \o acc
    ELSE <<Head(acc)>> \o InsertStablePair(Tail(acc), x)

RECURSIVE StableSortPair(_)
StableSortPair(s) ==
    IF s = <<>> THEN <<>>
    ELSE InsertStablePair(StableSortPair(SubSeq(s, 1, Len(s) - 1)), s[Len(s)])

\* min(iterable): the first of the minimal elements.
RECURSIVE FirstMin(_)
FirstMin(s) ==
    IF Len(s) = 1 THEN s[1]
    ELSE LET m == FirstMin(SubSeq(s, 1, Len(s) - 1))
         IN  IF Lt(s[Len(s)], m) THEN s[Len(s)] ELSE m

(***************************************************************************)
(* heapq.nsmallest(n, iterable), as CommandScheduler.enqueue calls it.     *)
(***************************************************************************)
RECURSIVE NSmallestScan(_, _, _, _)
NSmallestScan(result, s, i, order) ==
    IF i > Len(s) THEN result
    ELSE IF Lt(s[i], result[1].elem)
         THEN NSmallestScan(HeapReplaceMax(result, [elem |-> s[i], order |-> order]),
                            s, i + 1, order + 1)
         ELSE NSmallestScan(result, s, i + 1, order)

\* [(elem, i) for i, elem in zip(range(n), it)]
RECURSIVE WithOrder(_, _)
WithOrder(s, n) ==
    IF n = 0 THEN <<>>
    ELSE Append(WithOrder(s, n - 1), [elem |-> s[n], order |-> n - 1])

\* [elem for (elem, order) in result]
RECURSIVE Elems(_)
Elems(pairs) ==
    IF pairs = <<>> THEN <<>> ELSE <<Head(pairs).elem>> \o Elems(Tail(pairs))

NSmallest(n, s) ==
    IF n = 1 THEN (IF s = <<>> THEN <<>> ELSE <<FirstMin(s)>>)
    ELSE IF n >= Len(s) THEN StableSort(s)
    ELSE IF n <= 0 THEN <<>>
    ELSE Elems(StableSortPair(NSmallestScan(HeapifyMax(WithOrder(s, n)), s, n + 1, n)))

(***************************************************************************)
(* Python containers.                                                      *)
(***************************************************************************)
\* dict.get(k, default) on a dict modelled as a function on its keys.
DictGet(d, k, default) == IF k \in DOMAIN d THEN d[k] ELSE default

\* d[k] = v
DictSet(d, k, v) == [x \in (DOMAIN d) \cup {k} |-> IF x = k THEN v ELSE d[x]]

EmptyDict == [x \in {} |-> 0]

\* Variant of ListRemove that removes nothing.
ListRemoveNothing(s, x) == s

\* list.remove(x): drops the first element equal to x.
RECURSIVE ListRemove(_, _)
ListRemove(s, x) ==
    IF s = <<>> THEN <<>>
    ELSE IF Head(s) = x THEN Tail(s)
    ELSE <<Head(s)>> \o ListRemove(Tail(s), x)

RECURSIVE ListRemoveAll(_, _)
ListRemoveAll(s, xs) ==
    IF xs = <<>> THEN s
    ELSE ListRemoveAll(IF \E i \in 1..Len(s) : s[i] = Head(xs)
                       THEN ListRemove(s, Head(xs)) ELSE s,
                       Tail(xs))

\* Variant of ExpiredIn that also takes the entries whose deadline is now.
RECURSIVE ExpiredInOrDue(_, _)
ExpiredInOrDue(s, current_time_ms) ==
    IF s = <<>> THEN <<>>
    ELSE (IF Head(s).deadline_ms <= current_time_ms THEN <<Head(s)>> ELSE <<>>)
         \o ExpiredInOrDue(Tail(s), current_time_ms)

\* [c for c in queue if c.deadline_ms < now]
RECURSIVE ExpiredIn(_, _)
ExpiredIn(s, current_time_ms) ==
    IF s = <<>> THEN <<>>
    ELSE (IF Head(s).deadline_ms < current_time_ms THEN <<Head(s)>> ELSE <<>>)
         \o ExpiredIn(Tail(s), current_time_ms)

(***************************************************************************)
(* CommandScheduler.                                                       *)
(***************************************************************************)
\* CommandScheduler.enqueue on the queue of cmd's device.
\* Variant of EnqueueTrim that keeps the first queue_size entries of the heap
\* list instead of the smallest ones.
EnqueueTrimKeepsFirst(q, queue_size) == Heapify(SubSeq(q, 1, queue_size))

EnqueueTrim(q, queue_size) == Heapify(NSmallest(queue_size, q))

Enqueue(q, cmd, queue_size) ==
    LET pushed == HeapPush(q, cmd)
    IN  IF Len(pushed) > queue_size THEN EnqueueTrim(pushed, queue_size) ELSE pushed

\* The filters of the selection loop of get_commands_for_device.
ProtocolMatches(cmd, protocol) == protocol = None \/ cmd.protocol = protocol

\* Variant of IsExpired that never skips a command.
IsExpiredNever(cmd, current_time_ms) == FALSE

IsExpired(cmd, current_time_ms) == cmd.deadline_ms < current_time_ms

CmdSize(cmd) == Len(cmd.payload) + CmdOverhead

RECURSIVE SelectLoop(_, _, _, _, _, _, _)
SelectLoop(candidates, i, selected, remaining_payload, budget, current_time_ms, protocol) ==
    IF i > Len(candidates) THEN selected
    ELSE LET cmd == candidates[i]
         IN  IF ~ProtocolMatches(cmd, protocol) \/ IsExpired(cmd, current_time_ms)
             THEN SelectLoop(candidates, i + 1, selected, remaining_payload,
                             budget, current_time_ms, protocol)
             ELSE IF CmdSize(cmd) <= remaining_payload /\ Len(selected) < budget
             THEN SelectLoop(candidates, i + 1, Append(selected, cmd),
                             remaining_payload - CmdSize(cmd),
                             budget, current_time_ms, protocol)
             ELSE SelectLoop(candidates, i + 1, selected, remaining_payload,
                             budget, current_time_ms, protocol)

\* get_commands_for_device: the selected commands and the queue left behind.
GetCommandsForDevice(q, budget, current_time_ms, max_payload, protocol) ==
    IF q = <<>> THEN [selected |-> <<>>, queue |-> q]
    ELSE LET candidates == StableSort(q)
             selected == SelectLoop(candidates, 1, <<>>, max_payload, budget,
                                    current_time_ms, protocol)
         IN  [selected |-> selected, queue |-> Heapify(ListRemoveAll(q, selected))]

\* requeue_failed: the queue, the command object and the value returned.
RequeueFailed(q, cmd, current_time_ms, queue_size) ==
    IF cmd.retries < cmd.max_retries /\ cmd.deadline_ms > current_time_ms
    THEN LET retried == [cmd EXCEPT !.retries = @ + 1]
         IN  [queue |-> Enqueue(q, retried, queue_size), cmd |-> retried, result |-> TRUE]
    ELSE [queue |-> q, cmd |-> cmd, result |-> FALSE]

\* Gateway._cleanup_expired_commands on one queue.
CleanupQueue(q, current_time_ms) ==
    LET expired == ExpiredIn(q, current_time_ms)
    IN  [expired |-> expired, queue |-> Heapify(ListRemoveAll(q, expired))]

RECURSIVE TotalLen(_, _)
TotalLen(f, S) ==
    IF S = {} THEN 0
    ELSE LET d == CHOOSE x \in S : TRUE IN Len(f[d]) + TotalLen(f, S \ {d})

\* _cleanup_expired_commands over every queue: the queues after it, what it
\* removed from each and how many commands that makes.
CleanupAll(current_time_ms) ==
    LET r == [d \in Devices |-> CleanupQueue(queues[d], current_time_ms)]
        expired == [d \in Devices |-> r[d].expired]
    IN  [queues |-> [d \in Devices |-> r[d].queue],
         expired |-> expired,
         total |-> TotalLen(expired, Devices)]

(***************************************************************************)
(* Gateway.queue_command.                                                  *)
(***************************************************************************)
NoSession == [present |-> FALSE, keys |-> {}, epochs |-> EmptyDict,
              last_seq_uplink |-> 0, last_seen_ms |-> 0]

PriorityNum(priority) ==
    CASE priority = "critical" -> 0
      [] priority = "normal" -> 1
      [] priority = "best_effort" -> 2
      [] OTHER -> 1

\* The gateway reads the retry budget from its own configuration section,
\* which holds no qos_classes: every command gets the default.
MaxRetriesFor(priority) == DefaultMaxRetries

\* Variant of NextEpoch that does not wrap.
NextEpochNoWrap(current_epoch) == current_epoch + 1

NextEpoch(current_epoch) == (current_epoch + 1) % EpochModulus

\* Variant of NewCommand that leaves the protocol at queue_command's default.
NewCommandDefaultProtocol(sessions, counter, t, device_id, cmd_type, payload, priority, deadline_s, protocol) ==
    [cmd_id |-> counter,
     device_id |-> device_id,
     protocol |-> "novel_lpwan",
     cmd_type |-> cmd_type,
     payload |-> payload,
     epoch_id |-> NextEpoch(DictGet(sessions[device_id].epochs, cmd_type, 0)),
     priority |-> PriorityNum(priority),
     deadline_ms |-> t + deadline_s * MsPerSecond,
     created_ms |-> t,
     retries |-> 0,
     max_retries |-> MaxRetriesFor(priority)]

NewCommand(sessions, counter, t, device_id, cmd_type, payload, priority, deadline_s, protocol) ==
    [cmd_id |-> counter,
     device_id |-> device_id,
     protocol |-> protocol,
     cmd_type |-> cmd_type,
     payload |-> payload,
     epoch_id |-> NextEpoch(DictGet(sessions[device_id].epochs, cmd_type, 0)),
     priority |-> PriorityNum(priority),
     deadline_ms |-> t + deadline_s * MsPerSecond,
     created_ms |-> t,
     retries |-> 0,
     max_retries |-> MaxRetriesFor(priority)]

StoreEpoch(sessions, device_id, cmd_type, new_epoch) ==
    [sessions EXCEPT ![device_id] =
        [@ EXCEPT !.present = TRUE,
                  !.keys = @ \cup {"epochs"},
                  !.epochs = DictSet(@, cmd_type, new_epoch)]]

\* queue_command: the gateway state after the call.
QueueCommand(g, t, device_id, cmd_type, payload, priority, deadline_s, protocol) ==
    LET cmd == NewCommand(g.device_sessions, g.cmd_counter, t, device_id, cmd_type,
                          payload, priority, deadline_s, protocol)
    IN  [device_sessions |-> StoreEpoch(g.device_sessions, device_id, cmd_type, cmd.epoch_id),
         cmd_counter |-> g.cmd_counter + 1,
         queues |-> [g.queues EXCEPT ![device_id] = Enqueue(@, cmd, g.queue_size)],
         cmd |-> cmd]

(***************************************************************************)
(* Bytes, bitmaps and the LoRaWAN time on air (network.py).                *)
(***************************************************************************)
RECURSIVE Pow2(_)
Pow2(n) == IF n = 0 THEN 1 ELSE 2 * Pow2(n - 1)

\* int.to_bytes(2, 'big') and struct.pack('>H', n)
U16BE(n) == <<(n \div 256) % 256, n % 256>>

\* struct.unpack('>H', b)
FromU16BE(hi, lo) == hi * 256 + lo

\* struct.pack('>I', n) for n below 2^16
U32BE(n) == <<0, 0>> \o U16BE(n)

\* bitmap & (1 << i)
BitSet(bitmap, i) == (bitmap \div Pow2(i)) % 2 = 1

\* bin(bitmap).count('1')
RECURSIVE PopCount(_)
PopCount(bitmap) == IF bitmap = 0 THEN 0 ELSE (bitmap % 2) + PopCount(bitmap \div 2)

\* payload[a:b] of a Python bytes object, a and b counted from 0
RECURSIVE Slice(_, _, _)
Slice(b, from, to) ==
    IF from >= to \/ from >= Len(b) THEN <<>>
    ELSE <<b[from + 1]>> \o Slice(b, from + 1, to)

\* LoRaWANChannel.toa_per_byte, in microseconds
ToaPerByteUs(sf) ==
    CASE sf = 7 -> 500
      [] sf = 8 -> 900
      [] sf = 9 -> 1600
      [] sf = 10 -> 2900
      [] sf = 11 -> 5200
      [] sf = 12 -> 9500

\* LoRaWANChannel.calculate_airtime, in microseconds:
\* 12.25 * 2^sf / 125000 * 1000 ms of preamble (8 microseconds per chip), 8
\* bytes of header, the payload.
CalculateAirtimeUs(payload_bytes, sf) ==
    (1225 * Pow2(sf) * 8) \div 100
        + 8 * ToaPerByteUs(sf) + payload_bytes * ToaPerByteUs(sf)

\* The clock of the model counts whole milliseconds: an airtime is rounded up.
CalculateAirtime(payload_bytes, sf) ==
    (CalculateAirtimeUs(payload_bytes, sf) + MsPerSecond - 1) \div MsPerSecond

\* NetworkSimulator.can_transmit: window_ms * duty_cycle.
MaxAirtimeMs == (DutyCycleWindowMs * DutyCyclePercent) \div 100

\* NetworkSimulator.can_transmit.  Nothing in the program calls it:
\* _send_uplinks and _transmit_uplink transmit without asking.
CanTransmit(tracker, airtime_ms) ==
    tracker.airtime_budget_ms + airtime_ms <= MaxAirtimeMs

(***************************************************************************)
(* AckTracker (gateway.py).  pending is the dict seq_num -> timestamp of   *)
(* one device.                                                             *)
(***************************************************************************)
\* Variant of AddPending that files the uplink under the next sequence number.
AddPendingNext(pending, seq_num, timestamp_ms) ==
    DictSet(pending, (seq_num + 1) % SeqModulus, timestamp_ms)

AddPending(pending, seq_num, timestamp_ms) == DictSet(pending, seq_num, timestamp_ms)

MinKey(d) == CHOOSE k \in DOMAIN d : \A j \in DOMAIN d : k <= j

RECURSIVE BitmapOf(_, _, _)
BitmapOf(seqs, min_seq, window_size) ==
    IF seqs = {} THEN 0
    ELSE LET seq == CHOOSE x \in seqs : TRUE
             offset == (seq - min_seq) % SeqModulus
         IN  (IF offset < window_size THEN Pow2(offset) ELSE 0)
                 + BitmapOf(seqs \ {seq}, min_seq, window_size)

\* generate_ack_bitmap: (ack_base, bitmap)
GenerateAckBitmap(pending) ==
    IF DOMAIN pending = {} THEN [ack_base |-> 0, ack_bitmap |-> 0]
    ELSE [ack_base |-> MinKey(pending),
          ack_bitmap |-> BitmapOf(DOMAIN pending, MinKey(pending), AckWindowSize)]

\* mark_acked: the pending dictionary without the acknowledged entries.
RECURSIVE MarkAckedLoop(_, _, _, _)
MarkAckedLoop(pending, bitmap, base, i) ==
    IF i >= AckWindowSize THEN pending
    ELSE LET seq == (base + i) % SeqModulus
         IN  MarkAckedLoop(IF BitSet(bitmap, i) /\ seq \in DOMAIN pending
                           THEN [k \in (DOMAIN pending) \ {seq} |-> pending[k]]
                           ELSE pending,
                           bitmap, base, i + 1)

\* Variant of MarkAcked that does not look at bit 0.
MarkAckedFromOne(pending, bitmap, base) == MarkAckedLoop(pending, bitmap, base, 1)

MarkAcked(pending, bitmap, base) == MarkAckedLoop(pending, bitmap, base, 0)

(***************************************************************************)
(* Downlink frames: how the gateway builds them (gateway.py) and how the   *)
(* protocols parse them (protocols/*.py).                                  *)
(***************************************************************************)
RECURSIVE EncodeCommands(_)
EncodeCommands(commands) ==
    IF commands = <<>> THEN <<>>
    ELSE LET cmd == Head(commands)
         IN  <<cmd.cmd_type, cmd.epoch_id, Len(cmd.payload)>> \o cmd.payload
                 \o EncodeCommands(Tail(commands))

Packet(protocol, dest_id, payload, timestamp_ms, ack_bitmap, seq_num) ==
    [protocol |-> protocol, dest_id |-> dest_id, payload |-> payload,
     size_bytes |-> Len(payload), timestamp_ms |-> timestamp_ms,
     ack_bitmap |-> ack_bitmap, seq_num |-> seq_num]

CreateNovelDownlink(device_id, commands, ack_base, ack_bitmap, t) ==
    Packet("novel_lpwan", device_id,
           <<MsgTypeCmdResp>> \o U16BE(ack_base) \o U16BE(ack_bitmap)
               \o EncodeCommands(commands),
           t, ack_bitmap, ack_base)

CreateMqttSnDownlink(device_id, cmd, t) ==
    LET inner_payload == <<MqttSnPublish, MqttSnQos1Flags>> \o U16BE(cmd.cmd_type)
                             \o U16BE(cmd.epoch_id) \o cmd.payload
    IN  Packet("mqtt_sn", device_id, <<Len(inner_payload) + 1>> \o inner_payload, t, 0, 0)

CreateCoapDownlink(device_id, cmd, t) ==
    LET token == U32BE(cmd.epoch_id)
        byte0 == CoapVersion * 64 + CoapAck * 16 + Len(token)
    IN  Packet("coap", device_id,
               <<byte0, CoapContent>> \o U16BE(cmd.cmd_id % 65536) \o token
                   \o <<PayloadMarker>> \o cmd.payload,
               t, 0, 0)

\* The loop of NovelLPWANProtocol.parse_downlink_packet from byte offset on.
RECURSIVE NovelParseLoop(_, _)
NovelParseLoop(payload, offset) ==
    IF offset >= Len(payload) \/ offset + 3 > Len(payload) THEN <<>>
    ELSE LET cmd_type == payload[offset + 1]
             epoch_id == payload[offset + 2]
             cmd_len == payload[offset + 3]
         IN  IF offset + 3 + cmd_len > Len(payload) THEN <<>>
             ELSE <<[cmd_type |-> cmd_type, epoch_id |-> epoch_id,
                     payload |-> Slice(payload, offset + 3, offset + 3 + cmd_len)]>>
                      \o NovelParseLoop(payload, offset + 3 + cmd_len)

NovelParseDownlink(packet) ==
    IF Len(packet.payload) < NovelHeaderSize + 2 THEN <<>>
    ELSE NovelParseLoop(packet.payload, NovelHeaderSize + 2)

MqttSnParseDownlink(packet) ==
    LET b == packet.payload
    IN  IF Len(b) < 2 THEN <<>>
        ELSE IF b[2] = MqttSnPublish /\ Len(b) >= 7
             THEN <<[cmd_type |-> FromU16BE(b[4], b[5]),
                     epoch_id |-> FromU16BE(b[6], b[7]),
                     payload |-> Slice(b, 7, Len(b)),
                     qos |-> (b[3] \div 32) % 4]>>
             ELSE <<>>

\* The first index at or after i that holds the payload marker, counted from
\* 0; Len(b) if there is none.
RECURSIVE FindMarker(_, _)
FindMarker(b, i) ==
    IF i >= Len(b) THEN Len(b)
    ELSE IF b[i + 1] = PayloadMarker THEN i ELSE FindMarker(b, i + 1)

CoapParseDownlink(packet) ==
    LET b == packet.payload
    IN  IF Len(b) < 4 THEN <<>>
        ELSE LET msg_type == (b[1] \div 16) % 4
                 tkl == b[1] % 16
                 marker == FindMarker(b, 4 + tkl)
                 payload_start == IF marker < Len(b) THEN marker + 1 ELSE 4 + tkl
             IN  IF payload_start < Len(b)
                 THEN <<[cmd_type |-> b[2],
                         epoch_id |-> FromU16BE(b[3], b[4]),
                         payload |-> Slice(b, payload_start, Len(b)),
                         confirmable |-> msg_type = CoapCon]>>
                 ELSE <<>>

ParseDownlinkPacket(packet) ==
    CASE packet.protocol = "novel_lpwan" -> NovelParseDownlink(packet)
      [] packet.protocol = "mqtt_sn" -> MqttSnParseDownlink(packet)
      [] packet.protocol = "coap" -> CoapParseDownlink(packet)

(***************************************************************************)
(* MetricsCollector.metrics: per protocol (and "all"), a counter per key.  *)
(***************************************************************************)
MetricProtocols == ProtocolSet \cup {"all"}

ZeroMetrics ==
    [uplink_success |-> 0, uplink_failed |-> 0, uplink_bytes |-> 0,
     downlink_success |-> 0, downlink_failed |-> 0, downlink_bytes |-> 0,
     tx_count |-> 0, rx_count |-> 0,
     gateway_rx_count |-> 0, gateway_rx_bytes |-> 0,
     gateway_tx_count |-> 0, gateway_tx_bytes |-> 0,
     acks_sent |-> 0, messages_acked |-> 0, acks_received |-> 0,
     commands_applied |-> 0, cmd_latency_sum_ms |-> 0, cmd_latency_count |-> 0,
     commands_expired |-> 0]

Add(m, proto, key, n) == [m EXCEPT ![proto][key] = @ + n]

RecordTransmission(m, packet, direction, success) ==
    LET outcome == IF direction = "uplink"
                   THEN (IF success THEN "uplink_success" ELSE "uplink_failed")
                   ELSE (IF success THEN "downlink_success" ELSE "downlink_failed")
        bytes == IF direction = "uplink" THEN "uplink_bytes" ELSE "downlink_bytes"
    IN  Add(Add(m, packet.protocol, outcome, 1), packet.protocol, bytes, packet.size_bytes)

RecordDeviceTx(m, protocol) == Add(m, protocol, "tx_count", 1)

RecordDeviceRx(m, protocol) == Add(m, protocol, "rx_count", 1)

RecordGatewayRx(m, packet) ==
    Add(Add(m, packet.protocol, "gateway_rx_count", 1),
        packet.protocol, "gateway_rx_bytes", packet.size_bytes)

\* Variant of RecordGatewayTx that adds the bits to acks_sent and the frame to
\* messages_acked.
RecordGatewayTxSwapped(m, packet) ==
    LET counted == Add(Add(m, packet.protocol, "gateway_tx_count", 1),
                       packet.protocol, "gateway_tx_bytes", packet.size_bytes)
    IN  IF packet.protocol = "novel_lpwan" /\ packet.ack_bitmap # 0
        THEN Add(Add(counted, packet.protocol, "messages_acked", 1),
                 packet.protocol, "acks_sent", PopCount(packet.ack_bitmap))
        ELSE counted

RecordGatewayTx(m, packet) ==
    LET counted == Add(Add(m, packet.protocol, "gateway_tx_count", 1),
                       packet.protocol, "gateway_tx_bytes", packet.size_bytes)
    IN  IF packet.protocol = "novel_lpwan" /\ packet.ack_bitmap # 0
        THEN Add(Add(counted, packet.protocol, "acks_sent", 1),
                 packet.protocol, "messages_acked", PopCount(packet.ack_bitmap))
        ELSE counted

RecordAckReceived(m, n) == Add(m, "novel_lpwan", "acks_received", n)

RecordCommandApplied(m, protocol, latency_ms) ==
    Add(Add(Add(m, protocol, "commands_applied", 1),
            protocol, "cmd_latency_sum_ms", latency_ms),
        protocol, "cmd_latency_count", 1)

RecordCommandExpired(m, n) == Add(m, "all", "commands_expired", n)

\* finalize: the ack_efficiency it stores for a protocol, as the fraction
\* num / den; it stores none unless the protocol is novel_lpwan and
\* acks_sent > 0.
FinalizeAckEfficiency(m, proto) ==
    IF proto = "novel_lpwan" /\ m[proto].acks_sent > 0
    THEN [stored |-> TRUE, num |-> m[proto].messages_acked, den |-> m[proto].acks_sent]
    ELSE [stored |-> FALSE, num |-> 0, den |-> 1]

\* get_summary: m.get('ack_efficiency', 1.0)
SummaryAckEfficiency(m, proto) ==
    LET e == FinalizeAckEfficiency(m, proto)
    IN  IF e.stored THEN [num |-> e.num, den |-> e.den] ELSE [num |-> 1, den |-> 1]

(***************************************************************************)
(* EndDevice (device.py).                                                  *)
(***************************************************************************)
Never == -1

NoPacket == [protocol |-> None]

\* The device after __init__, its run() waiting for the first sleep to end.
InitialDevice(sleep_duration) ==
    [pc |-> "sleep", due |-> sleep_duration,
     is_sleeping |-> TRUE, current_power |-> "sleep", last_state_change_ms |-> 0,
     pending_uplinks |-> <<>>, pending_commands |-> <<>>,
     next_seq_uplink |-> 0, epoch_ids |-> EmptyDict,
     mqtt_sn |-> [message_id |-> 0, inflight_publish |-> {}],
     coap |-> [message_id |-> 0, inflight |-> {}],
     batch |-> <<>>, msg_idx |-> 0, proto_idx |-> 0,
     packet |-> NoPacket, airtime_ms |-> 0, success |-> FALSE,
     woke_ms |-> Never]

ChangePowerState(dev, state, t) ==
    [dev EXCEPT !.current_power = state,
                !.is_sleeping = IF state = "sleep" THEN TRUE
                                ELSE IF state = "idle" THEN FALSE ELSE @,
                !.last_state_change_ms = t]

\* The power model of the device in microwatts: the defaults of __init__,
\* which are 0.001, 1.0, 12.0 and 80 mW.
PowerUw(state) ==
    CASE state = "sleep" -> 1
      [] state = "idle" -> 1000
      [] state = "rx" -> 12000
      [] state = "tx" -> 80000

\* The energy _send_uplinks hands to record_device_tx, in nanojoules:
\* packet.airtime_ms * self.current_power_mw.
TxEnergyNj(dev) == dev.airtime_ms * PowerUw(dev.current_power)

\* Variant of NextSeq that never moves.
NextSeqStuck(seq) == seq

NextSeq(seq) == (seq + 1) % SeqModulus

NextMessageId(message_id) == (message_id + 1) % SeqModulus

\* create_uplink_packet of the three protocols: the packet and the device
\* state after the call.  confirmable is the draw CoAP makes for a message
\* of class normal.
CreateUplinkPacket(dev, device_id, proto_name, msg, confirmable) ==
    LET up(seq, size) == [protocol |-> proto_name, source_id |-> device_id,
                          seq_num |-> seq, size_bytes |-> size,
                          qos_class |-> msg.qos_class]
    IN  CASE proto_name = "novel_lpwan" ->
                [packet |-> up(dev.next_seq_uplink, NovelHeaderSize + msg.payload_bytes),
                 dev |-> dev]
          [] proto_name = "mqtt_sn" ->
                LET qos == IF msg.qos_class = "best_effort" THEN 0 ELSE 1
                    message_id == NextMessageId(dev.mqtt_sn.message_id)
                    msg_id == IF qos > 0 THEN message_id ELSE 0
                IN  [packet |-> up(msg_id, MqttSnUplinkHeaderBytes + msg.payload_bytes),
                     dev |-> [dev EXCEPT !.mqtt_sn.message_id = message_id,
                                         !.mqtt_sn.inflight_publish =
                                             IF qos > 0 THEN @ \cup {msg_id} ELSE @]]
          [] proto_name = "coap" ->
                LET con == CASE msg.qos_class = "critical" -> TRUE
                             [] msg.qos_class = "best_effort" -> FALSE
                             [] OTHER -> confirmable
                    message_id == NextMessageId(dev.coap.message_id)
                IN  [packet |-> up(message_id, CoapUplinkHeaderBytes + msg.payload_bytes),
                     dev |-> [dev EXCEPT !.coap.message_id = message_id,
                                         !.coap.inflight =
                                             IF con THEN @ \cup {message_id} ELSE @]]

\* One turn of the inner loop of _send_uplinks up to its yield: the device
\* builds the packet of message msg_idx for protocol proto_idx and the
\* network starts to transmit it.
StartUplink(dev, device_id, msg_idx, proto_idx, t, sf, success, confirmable) ==
    LET tx == ChangePowerState(dev, "tx", t)
        r == CreateUplinkPacket(tx, device_id, config.protocols[proto_idx],
                                dev.batch[msg_idx], confirmable)
        airtime_ms == CalculateAirtime(r.packet.size_bytes, sf)
    IN  [r.dev EXCEPT !.pc = "tx", !.due = t + airtime_ms,
                      !.msg_idx = msg_idx, !.proto_idx = proto_idx,
                      !.packet = r.packet, !.airtime_ms = airtime_ms,
                      !.success = success]

\* Variant of EpochIsNew that also accepts the stored epoch again.
EpochIsNewOrSame(epoch_id, current_epoch) == epoch_id >= current_epoch

\* device.py:185
EpochIsNew(epoch_id, current_epoch) == epoch_id > current_epoch

\* The loop of _process_commands over a copy of pending_commands: the epoch
\* table after it and the commands it applied.
RECURSIVE ProcessLoop(_, _, _)
ProcessLoop(cmds, epoch_ids, applied) ==
    IF cmds = <<>> THEN [epoch_ids |-> epoch_ids, applied |-> applied]
    ELSE LET cmd == Head(cmds)
         IN  IF cmd.protocol = "novel_lpwan"
             THEN IF EpochIsNew(cmd.epoch_id, DictGet(epoch_ids, cmd.cmd_type, 0))
                  THEN ProcessLoop(Tail(cmds),
                                   DictSet(epoch_ids, cmd.cmd_type, cmd.epoch_id),
                                   Append(applied, cmd))
                  ELSE ProcessLoop(Tail(cmds), epoch_ids, applied)
             ELSE ProcessLoop(Tail(cmds), epoch_ids, Append(applied, cmd))

\* _process_commands up to its yield: every pending command is handled and
\* removed, then the device waits for the processing time.
ProcessCommands(dev, t) ==
    LET r == ProcessLoop(dev.pending_commands, dev.epoch_ids, <<>>)
    IN  [dev |-> [dev EXCEPT !.epoch_ids = r.epoch_ids,
                             !.pending_commands =
                                 ListRemoveAll(dev.pending_commands, dev.pending_commands),
                             !.pc = "process", !.due = t + CommandProcessingMs],
         applied |-> r.applied]

\* The end of one turn of run(): the device goes to sleep and the next turn
\* starts its timeout.
GoToSleep(dev, t, sleep_duration) ==
    [ChangePowerState(dev, "sleep", t) EXCEPT
        !.pc = "sleep", !.due = t + sleep_duration,
        !.batch = <<>>, !.msg_idx = 0, !.proto_idx = 0, !.packet = NoPacket]

\* run() from "if self.pending_commands" on.
CommandsThenSleep(dev, t, sleep_duration) ==
    IF dev.pending_commands # <<>>
    THEN ProcessCommands(dev, t)
    ELSE [dev |-> GoToSleep(dev, t, sleep_duration), applied |-> <<>>]

\* queue_uplink
QueueUplink(dev, payload_bytes, qos_class, t) ==
    [dev EXCEPT !.pending_uplinks =
        Append(@, [payload_bytes |-> payload_bytes, qos_class |-> qos_class,
                   created_ms |-> t])]

RECURSIVE WithProtocol(_, _, _)
WithProtocol(commands, proto_name, timestamp_ms) ==
    IF commands = <<>> THEN <<>>
    ELSE <<Head(commands) @@ [protocol |-> proto_name, created_ms |-> timestamp_ms]>>
             \o WithProtocol(Tail(commands), proto_name, timestamp_ms)

\* receive_downlink
ReceiveDownlink(dev, packet, t) ==
    LET rx == ChangePowerState(dev, "rx", t)
        commands == ParseDownlinkPacket(packet)
        queued == [rx EXCEPT !.pending_commands =
                      @ \o WithProtocol(commands, packet.protocol, packet.timestamp_ms)]
    IN  ChangePowerState(queued, "idle", t)

\* How many times _process_ack_bitmap calls record_ack_received.
AcksIn(packet) ==
    IF packet.protocol = "novel_lpwan" /\ packet.ack_bitmap # 0
    THEN PopCount(packet.ack_bitmap % Pow2(16)) ELSE 0

(***************************************************************************)
(* Gateway.receive_uplink (gateway.py).                                    *)
(***************************************************************************)
\* _handle_novel_uplink: the session of the device after the uplink.
HandleNovelUplink(session, packet, t) ==
    [session EXCEPT !.present = TRUE,
                    !.keys = IF session.present
                             THEN @ \cup {"last_seq_uplink", "last_seen_ms"}
                             ELSE {"token", "last_seq_uplink", "subscriptions",
                                   "inflight", "last_seen_ms"},
                    !.last_seq_uplink = packet.seq_num,
                    !.last_seen_ms = t]

\* Variant of BudgetFor that lets every protocol aggregate.
BudgetForAll(proto_name) == NovelBudget

BudgetFor(proto_name) == IF proto_name = "novel_lpwan" THEN NovelBudget ELSE BaselineBudget

RECURSIVE OneFramePerCommand(_, _, _, _)
OneFramePerCommand(proto_name, device_id, commands, t) ==
    IF commands = <<>> THEN <<>>
    ELSE <<[packet |-> IF proto_name = "mqtt_sn"
                       THEN CreateMqttSnDownlink(device_id, Head(commands), t)
                       ELSE CreateCoapDownlink(device_id, Head(commands), t),
            cmds |-> <<Head(commands)>>]>>
             \o OneFramePerCommand(proto_name, device_id, Tail(commands), t)

\* The frames _schedule_downlink_opportunity creates from the commands the
\* scheduler returned, each with the commands it carries.
FramesFor(proto_name, device_id, commands, pending, t) ==
    IF proto_name = "novel_lpwan"
    THEN IF commands # <<>>
         THEN LET ack == GenerateAckBitmap(pending)
              IN  <<[packet |-> CreateNovelDownlink(device_id, commands, ack.ack_base,
                                                    ack.ack_bitmap, t),
                     cmds |-> commands]>>
         ELSE <<>>
    ELSE OneFramePerCommand(proto_name, device_id, commands, t)

\* Variant of RxWindowOpens without the wait for the RX window.
RxWindowOpensAtOnce(t) == t

\* _transmit_downlink on the lorawan network: the transmission starts when
\* the RX window opens.
RxWindowOpens(t) == t + Rx1DelayMs

\* _send_downlink and NetworkSimulator._transmit_downlink up to the wait for
\* the RX window, for each frame.
RECURSIVE StartDownlinks(_, _, _)
StartDownlinks(frames, trigger, t) ==
    IF frames = <<>> THEN <<>>
    ELSE <<[packet |-> Head(frames).packet, cmds |-> Head(frames).cmds,
            trigger |-> trigger, phase |-> "rx_wait", due |-> RxWindowOpens(t),
            success |-> FALSE, airtime_ms |-> 0, tx_ms |-> Never, done_ms |-> Never,
            parsed |-> <<>>]>>
             \o StartDownlinks(Tail(frames), trigger, t)

\* receive_uplink: what it leaves in the gateway, the scheduler, the metrics
\* and the list of downlinks.
ReceiveUplink(packet, t) ==
    LET device_id == packet.source_id
        proto_name == packet.protocol
        novel == proto_name = "novel_lpwan"
        sessions == IF novel
                    THEN [device_sessions EXCEPT
                             ![device_id] = HandleNovelUplink(@, packet, t)]
                    ELSE device_sessions
        acks == IF novel
                THEN [pending_acks EXCEPT ![device_id] = AddPending(@, packet.seq_num, t)]
                ELSE pending_acks
        got == GetCommandsForDevice(queues[device_id], BudgetFor(proto_name), t,
                                    DefaultMaxPayload, proto_name)
        frames == FramesFor(proto_name, device_id, got.selected, acks[device_id], t)
    IN  [uplink_count |-> uplink_count + 1,
         device_sessions |-> sessions,
         pending_acks |-> acks,
         queues |-> [queues EXCEPT ![device_id] = got.queue],
         downlink_count |-> downlink_count + Len(frames),
         downlinks |-> downlinks \o StartDownlinks(frames, uplink_count + 1, t),
         metrics |-> RecordGatewayRx(metrics, packet)]

(***************************************************************************)
(* The simulated system (run_sim.py): one gateway, the devices, the        *)
(* traffic generator, the network between them.                            *)
(***************************************************************************)
SimDevices == {0}

\* EndDevice._calculate_sleep_duration draws from 540000..660000 ms.
SleepDurations == {540000, 599500}

\* LoRaWANChannel.spreading_factors, of which _select_sf draws one.
SpreadingFactors == {7}

\* The first telemetry message comes after a draw from 0..uplink_interval_ms,
\* the next ones every uplink_interval_ms give or take the jitter.
InitialUplinkDelays == {0}
UplinkIntervals == {600000}
UplinkQosClasses == {"best_effort"}

\* The time between two commands: at least 100 ms.
CommandIntervals == {100, 600000}

\* What _generate_downlink_commands draws: priority, command type and the
\* payload _generate_command_payload builds for the type.
TrafficCommands ==
    { [priority |-> "critical", cmd_type |-> 0, payload |-> U16BE(256)],
      [priority |-> "normal", cmd_type |-> 2, payload |-> <<3>>] }

DeadlineFor(priority) ==
    CASE priority = "critical" -> CriticalDeadlineS
      [] priority = "normal" -> NormalDeadlineS
      [] OTHER -> BestEffortDeadlineS

\* The configuration of the runs of Spec: the three protocols enabled, a
\* lossy channel, and the draws above.
BaseConfig ==
    [protocols |-> Protocols,
     sleep_durations |-> SleepDurations,
     spreading_factors |-> SpreadingFactors,
     outcomes |-> BOOLEAN,
     confirmable |-> BOOLEAN,
     initial_uplink_delays |-> InitialUplinkDelays,
     uplink_intervals |-> UplinkIntervals,
     uplink_qos_classes |-> UplinkQosClasses,
     command_intervals |-> CommandIntervals,
     traffic_commands |-> TrafficCommands,
     max_uplink_messages |-> MaxUplinkMessages,
     max_traffic_commands |-> MaxTrafficCommands,
     duration_ms |-> SimDurationMs,
     queue_size |-> DefaultQueueSize]

SimInitial(sleep_duration, initial_delay) ==
    /\ pending_acks = [d \in Devices |-> EmptyDict]
    /\ uplink_count = 0
    /\ downlink_count = 0
    /\ devices = [d \in SimDevices |-> InitialDevice(sleep_duration)]
    /\ duty_cycle_tracker = [d \in SimDevices |-> [last_tx_ms |-> 0, airtime_budget_ms |-> 0]]
    /\ downlinks = <<>>
    /\ traffic = [uplink_next |-> [d \in SimDevices |-> initial_delay],
                  uplinks_generated |-> [d \in SimDevices |-> 0],
                  cmd_next |-> 0, cmds_generated |-> 0]
    /\ next_cleanup = CleanupIntervalMs
    /\ metrics = [p \in MetricProtocols |-> ZeroMetrics]
    /\ uplinks_log = <<>>
    /\ applied_log = <<>>

(***************************************************************************)
(* The scheduler on its own: queue_command, get_commands_for_device and    *)
(* the expiry sweep called in any order while the clock advances.          *)
(***************************************************************************)
SchedInputs ==
    { [device_id |-> 0, cmd_type |-> 0, payload |-> <<1, 0>>, priority |-> "normal",
       deadline_s |-> 3, protocol |-> "novel_lpwan"],
      [device_id |-> 0, cmd_type |-> 0, payload |-> <<1, 0>>, priority |-> "critical",
       deadline_s |-> 3, protocol |-> "novel_lpwan"],
      [device_id |-> 0, cmd_type |-> 2, payload |-> <<3>>, priority |-> "normal",
       deadline_s |-> 1, protocol |-> "novel_lpwan"],
      [device_id |-> 0, cmd_type |-> 0, payload |-> <<1, 0>>, priority |-> "normal",
       deadline_s |-> 3, protocol |-> "mqtt_sn"],
      [device_id |-> 0, cmd_type |-> 2, payload |-> <<>>, priority |-> "best_effort",
       deadline_s |-> 3, protocol |-> "novel_lpwan"],
      [device_id |-> 1, cmd_type |-> 0, payload |-> <<1, 0>>, priority |-> "normal",
       deadline_s |-> 3, protocol |-> "novel_lpwan"] }

\* The calls of get_commands_for_device the specification makes: the two the
\* gateway makes (gateway.py:279-282), and others with a small payload budget,
\* with no protocol filter and for the second device.
SchedGetInputs ==
    { [device_id |-> 0, budget |-> NovelBudget, max_payload |-> DefaultMaxPayload,
       protocol |-> "novel_lpwan"],
      [device_id |-> 0, budget |-> BaselineBudget, max_payload |-> DefaultMaxPayload,
       protocol |-> "mqtt_sn"],
      [device_id |-> 0, budget |-> NovelBudget, max_payload |-> 10,
       protocol |-> "novel_lpwan"],
      [device_id |-> 0, budget |-> 2, max_payload |-> DefaultMaxPayload,
       protocol |-> None],
      [device_id |-> 1, budget |-> BaselineBudget, max_payload |-> DefaultMaxPayload,
       protocol |-> "novel_lpwan"] }

NoOp == [op |-> "none"]

SchedInit ==
    /\ now = 0
    /\ queues = [d \in Devices |-> <<>>]
    /\ cmd_counter = 0
    /\ device_sessions = [d \in Devices |-> NoSession]
    /\ commands_expired = 0
    /\ lastOp = NoOp
    /\ enqueued = [d \in Devices |-> {}]
    /\ removals = [d \in Devices |-> FALSE]
    /\ evictions = [d \in Devices |-> 0]
    /\ config = BaseConfig
    /\ SimInitial(Never, Never)

SchedQueueCommand ==
    \E in \in SchedInputs :
        /\ cmd_counter < MaxCmds
        /\ LET g == [device_sessions |-> device_sessions, cmd_counter |-> cmd_counter,
                     queues |-> queues, queue_size |-> QueueSize]
               r == QueueCommand(g, now, in.device_id, in.cmd_type, in.payload,
                                 in.priority, in.deadline_s, in.protocol)
           IN  /\ device_sessions' = r.device_sessions
               /\ cmd_counter' = r.cmd_counter
               /\ queues' = r.queues
               /\ lastOp' = [op |-> "enqueue", device_id |-> in.device_id, cmd |-> r.cmd,
                             before |-> queues[in.device_id],
                             after |-> r.queues[in.device_id]]
               /\ enqueued' = [enqueued EXCEPT ![in.device_id] = @ \cup {r.cmd}]
               /\ evictions' = [evictions EXCEPT ![in.device_id] =
                                    @ + Len(queues[in.device_id]) + 1
                                      - Len(r.queues[in.device_id])]
        /\ UNCHANGED <<config, now, commands_expired, removals, simVars>>

SchedGetCommands ==
    \E in \in SchedGetInputs :
        LET d == in.device_id
            budget == in.budget
            max_payload == in.max_payload
            protocol == in.protocol
            r == GetCommandsForDevice(queues[d], budget, now, max_payload, protocol)
            got == {r.selected[i] : i \in 1..Len(r.selected)}
        IN  /\ queues' = [queues EXCEPT ![d] = r.queue]
            /\ lastOp' = [op |-> "get", device_id |-> d, budget |-> budget,
                          current_time_ms |-> now, max_payload |-> max_payload,
                          protocol |-> protocol, selected |-> r.selected,
                          before |-> queues, after |-> queues']
            /\ enqueued' = [enqueued EXCEPT ![d] = @ \ got]
            /\ removals' = [removals EXCEPT ![d] = @ \/ got # {}]
            /\ UNCHANGED <<config, now, cmd_counter, device_sessions, commands_expired, evictions, simVars>>

SchedCleanup ==
    LET r == CleanupAll(now)
    IN  /\ queues' = r.queues
        /\ commands_expired' = commands_expired + r.total
        /\ metrics' = RecordCommandExpired(metrics, r.total)
        /\ lastOp' = [op |-> "cleanup", current_time_ms |-> now,
                      before |-> queues, after |-> queues']
        /\ removals' = [d \in Devices |-> removals[d] \/ r.expired[d] # <<>>]
        /\ enqueued' = [d \in Devices |->
                            enqueued[d] \ {r.expired[d][i] : i \in 1..Len(r.expired[d])}]
        /\ UNCHANGED <<config, now, cmd_counter, device_sessions, evictions, pending_acks,
                       uplink_count, downlink_count, devices, duty_cycle_tracker,
                       downlinks, traffic, next_cleanup, uplinks_log, applied_log>>

SchedAdvance ==
    /\ now < MaxSchedTicks * 2 * MsPerSecond
    /\ now' = now + 2 * MsPerSecond
    /\ UNCHANGED <<config, schedVars, histVars, simVars>>

SchedNext ==
    \/ SchedQueueCommand
    \/ SchedGetCommands
    \/ SchedCleanup
    \/ SchedAdvance

SchedSpec == SchedInit /\ [][SchedNext]_vars

(***************************************************************************)
(* The scheduler with a caller that hands failed commands back: commands   *)
(* are queued, taken with get_commands_for_device, and any command of the  *)
(* last batch taken is passed to requeue_failed, at once or after time has *)
(* passed.                                                                 *)
(***************************************************************************)
SchedRequeue ==
    /\ lastOp.op = "get"
    /\ \E i \in 1..Len(lastOp.selected) :
           LET cmd == lastOp.selected[i]
               d == cmd.device_id
               r == RequeueFailed(queues[d], cmd, now, QueueSize)
           IN  /\ queues' = [queues EXCEPT ![d] = r.queue]
               /\ lastOp' = [op |-> "requeue", device_id |-> d, cmd |-> cmd,
                             current_time_ms |-> now, requeued |-> r.cmd,
                             result |-> r.result,
                             before |-> queues, after |-> queues']
               /\ enqueued' = [enqueued EXCEPT ![d] =
                                   IF r.result THEN @ \cup {r.cmd} ELSE @]
               /\ evictions' = [evictions EXCEPT ![d] =
                                    IF r.result
                                    THEN @ + Len(queues[d]) + 1 - Len(r.queue)
                                    ELSE @]
    /\ UNCHANGED <<config, now, cmd_counter, device_sessions, commands_expired,
                   removals, simVars>>

RequeueAdvance ==
    /\ now < MaxRequeueTicks * MsPerSecond
    /\ now' = now + MsPerSecond
    /\ UNCHANGED <<config, schedVars, histVars, simVars>>

\* queue_command, for the first MaxRequeueCmds commands.
RequeueQueueCommand ==
    /\ cmd_counter < MaxRequeueCmds
    /\ SchedQueueCommand

RequeueNext ==
    \/ RequeueQueueCommand
    \/ SchedGetCommands
    \/ SchedRequeue
    \/ RequeueAdvance

RequeueSpec == SchedInit /\ [][RequeueNext]_vars


(***************************************************************************)
(* The simulation.  Every process waits for a time; the process whose time *)
(* comes first runs up to its next wait, and the clock jumps to that time. *)
(***************************************************************************)
Max2(a, b) == IF a > b THEN a ELSE b

DueTimes ==
    ({devices[d].due : d \in SimDevices}
        \cup {downlinks[i].due : i \in 1..Len(downlinks)}
        \cup {traffic.uplink_next[d] : d \in SimDevices}
        \cup {traffic.cmd_next, next_cleanup}) \ {Never}

\* env.run(until=duration) runs the events before the end of the run.
IsDue(t) == t # Never /\ t < config.duration_ms /\ \A u \in DueTimes : t <= u

RECURSIVE LogApplied(_, _, _)
LogApplied(applied, device_id, t) ==
    IF applied = <<>> THEN <<>>
    ELSE <<[device_id |-> device_id, protocol |-> Head(applied).protocol,
            cmd_type |-> Head(applied).cmd_type, epoch_id |-> Head(applied).epoch_id,
            payload |-> Head(applied).payload, at_ms |-> t]>>
             \o LogApplied(Tail(applied), device_id, t)

RECURSIVE RecordApplied(_, _, _)
RecordApplied(m, applied, t) ==
    IF applied = <<>> THEN m
    ELSE RecordApplied(RecordCommandApplied(m, Head(applied).protocol,
                                            t - Head(applied).created_ms),
                       Tail(applied), t)

\* queue_command once per enabled protocol (traffic.py:154-163).
RECURSIVE QueueForProtocols(_, _, _, _, _, _)
QueueForProtocols(g, protos, t, device_id, c, deadline_s) ==
    IF protos = <<>> THEN g
    ELSE LET r == QueueCommand(g, t, device_id, c.cmd_type, c.payload, c.priority,
                               deadline_s, Head(protos))
         IN  QueueForProtocols([device_sessions |-> r.device_sessions,
                                cmd_counter |-> r.cmd_counter,
                                queues |-> r.queues, queue_size |-> g.queue_size],
                               Tail(protos), t, device_id, c, deadline_s)

\* The state run_simulation builds before env.run, for a configuration.
InitWith(cfg) ==
    /\ now = 0
    /\ queues = [d \in Devices |-> <<>>]
    /\ cmd_counter = 0
    /\ device_sessions = [d \in Devices |-> NoSession]
    /\ commands_expired = 0
    /\ lastOp = NoOp
    /\ enqueued = [d \in Devices |-> {}]
    /\ removals = [d \in Devices |-> FALSE]
    /\ evictions = [d \in Devices |-> 0]
    /\ config = cfg
    /\ \E sleep_duration \in config.sleep_durations, initial_delay \in config.initial_uplink_delays :
           SimInitial(sleep_duration, initial_delay)

Init == InitWith(BaseConfig)

\* TrafficGenerator._generate_uplink: one turn of its loop.
TrafficUplink(d) ==
    /\ IsDue(traffic.uplink_next[d])
    /\ now' = traffic.uplink_next[d]
    /\ \E qos_class \in config.uplink_qos_classes, interval \in config.uplink_intervals :
        /\ devices' = [devices EXCEPT ![d] =
                          QueueUplink(@, UplinkPayloadBytes, qos_class, now')]
        /\ traffic' = [traffic EXCEPT
                          !.uplinks_generated[d] = @ + 1,
                          !.uplink_next[d] =
                              IF traffic.uplinks_generated[d] + 1 < config.max_uplink_messages
                              THEN now' + Max2(1000, interval) ELSE Never]
    /\ UNCHANGED <<config, schedVars, histVars, pending_acks, uplink_count, downlink_count,
                   duty_cycle_tracker, downlinks, next_cleanup, metrics,
                   uplinks_log, applied_log>>

\* TrafficGenerator._generate_downlink_commands: one turn of its loop.
TrafficCommand ==
    /\ IsDue(traffic.cmd_next)
    /\ now' = traffic.cmd_next
    /\ \E d \in SimDevices, c \in config.traffic_commands, interval \in config.command_intervals :
        LET g == [device_sessions |-> device_sessions, cmd_counter |-> cmd_counter,
                  queues |-> queues, queue_size |-> config.queue_size]
            r == QueueForProtocols(g, config.protocols, now', d, c, DeadlineFor(c.priority))
        IN  /\ device_sessions' = r.device_sessions
            /\ cmd_counter' = r.cmd_counter
            /\ queues' = r.queues
            /\ evictions' = [evictions EXCEPT ![d] =
                                 @ + Len(queues[d]) + (r.cmd_counter - cmd_counter)
                                   - Len(r.queues[d])]
            /\ traffic' = [traffic EXCEPT
                              !.cmds_generated = @ + 1,
                              !.cmd_next = IF traffic.cmds_generated + 1 < config.max_traffic_commands
                                           THEN now' + Max2(100, interval) ELSE Never]
    /\ UNCHANGED <<config, commands_expired, lastOp, enqueued, removals, pending_acks,
                   uplink_count, downlink_count, devices, duty_cycle_tracker, downlinks,
                   next_cleanup, metrics, uplinks_log, applied_log>>

\* Gateway.run: one turn of its loop.
GatewayCleanup ==
    /\ IsDue(next_cleanup)
    /\ now' = next_cleanup
    /\ LET r == CleanupAll(now')
       IN  /\ queues' = r.queues
           /\ commands_expired' = commands_expired + r.total
           /\ metrics' = RecordCommandExpired(metrics, r.total)
    /\ next_cleanup' = now' + CleanupIntervalMs
    /\ UNCHANGED <<config, cmd_counter, device_sessions, histVars, pending_acks, uplink_count,
                   downlink_count, devices, duty_cycle_tracker, downlinks, traffic,
                   uplinks_log, applied_log>>

\* EndDevice.run: the sleep ends.  The device sends its pending uplinks, or
\* handles its pending commands, or goes back to sleep.
DeviceWake(d) ==
    /\ devices[d].pc = "sleep"
    /\ IsDue(devices[d].due)
    /\ now' = devices[d].due
    /\ LET idle == [ChangePowerState(devices[d], "idle", now') EXCEPT !.woke_ms = now']
       IN  IF idle.pending_uplinks # <<>>
           THEN /\ \E sf \in config.spreading_factors, success \in config.outcomes :
                       devices' = [devices EXCEPT ![d] =
                           StartUplink([idle EXCEPT !.batch = idle.pending_uplinks],
                                       d, 1, 1, now', sf, success, FALSE)]
                /\ UNCHANGED <<metrics, applied_log>>
           ELSE \E sleep_duration \in config.sleep_durations :
                   LET r == CommandsThenSleep(idle, now', sleep_duration)
                   IN  /\ devices' = [devices EXCEPT ![d] = r.dev]
                       /\ applied_log' = applied_log \o LogApplied(r.applied, d, now')
                       /\ metrics' = RecordApplied(metrics, r.applied, now')
    /\ UNCHANGED <<config, schedVars, histVars, pending_acks, uplink_count, downlink_count,
                   duty_cycle_tracker, downlinks, traffic, next_cleanup, uplinks_log>>

\* NetworkSimulator._transmit_uplink after the airtime, Gateway.receive_uplink
\* if the packet got through, and _send_uplinks up to its next yield or, after
\* the last packet, run() up to its next yield.
DeviceUplinkDone(d) ==
    /\ devices[d].pc = "tx"
    /\ IsDue(devices[d].due)
    /\ now' = devices[d].due
    /\ LET dev == devices[d]
           packet == dev.packet
           sent == IF packet.protocol = "novel_lpwan"
                   THEN [dev EXCEPT !.next_seq_uplink = NextSeq(@)]
                   ELSE dev
           transmitted == RecordTransmission(metrics, packet, "uplink", dev.success)
           \* the gateway's side
           g == ReceiveUplink(packet, now')
           after_gateway == IF dev.success
                            THEN [g.metrics EXCEPT ![packet.protocol] =
                                     [transmitted[packet.protocol] EXCEPT
                                         !.gateway_rx_count = @ + 1,
                                         !.gateway_rx_bytes = @ + packet.size_bytes]]
                            ELSE transmitted
           recorded == RecordDeviceTx(after_gateway, packet.protocol)
       IN  /\ duty_cycle_tracker' = [duty_cycle_tracker EXCEPT
                                        ![d].airtime_budget_ms = @ + dev.airtime_ms,
                                        ![d].last_tx_ms = now']
           /\ uplinks_log' = Append(uplinks_log,
                                    [device_id |-> d, protocol |-> packet.protocol,
                                     seq_num |-> packet.seq_num, success |-> dev.success,
                                     airtime_ms |-> dev.airtime_ms, done_ms |-> now',
                                     energy_nj |-> TxEnergyNj(dev),
                                     created_ms |-> dev.batch[dev.msg_idx].created_ms])
           /\ IF dev.success
              THEN /\ uplink_count' = g.uplink_count
                   /\ device_sessions' = g.device_sessions
                   /\ pending_acks' = g.pending_acks
                   /\ queues' = g.queues
                   /\ downlink_count' = g.downlink_count
                   /\ downlinks' = g.downlinks
              ELSE UNCHANGED <<uplink_count, device_sessions, pending_acks, queues,
                               downlink_count, downlinks>>
           /\ IF dev.proto_idx < Len(config.protocols)
              THEN /\ \E sf \in config.spreading_factors, success \in config.outcomes,
                         confirmable \in config.confirmable :
                           devices' = [devices EXCEPT ![d] =
                               StartUplink(sent, d, dev.msg_idx, dev.proto_idx + 1,
                                           now', sf, success, confirmable)]
                   /\ metrics' = recorded
                   /\ UNCHANGED applied_log
              ELSE LET removed == [sent EXCEPT !.pending_uplinks =
                                      ListRemove(@, dev.batch[dev.msg_idx])]
                   IN  IF dev.msg_idx < Len(dev.batch)
                       THEN /\ \E sf \in config.spreading_factors, success \in config.outcomes :
                                   devices' = [devices EXCEPT ![d] =
                                       StartUplink(removed, d, dev.msg_idx + 1, 1,
                                                   now', sf, success, FALSE)]
                            /\ metrics' = recorded
                            /\ UNCHANGED applied_log
                       ELSE \E sleep_duration \in config.sleep_durations :
                               LET r == CommandsThenSleep(
                                            ChangePowerState(removed, "idle", now'),
                                            now', sleep_duration)
                               IN  /\ devices' = [devices EXCEPT ![d] = r.dev]
                                   /\ applied_log' =
                                          applied_log \o LogApplied(r.applied, d, now')
                                   /\ metrics' = RecordApplied(recorded, r.applied, now')
    /\ UNCHANGED <<config, cmd_counter, commands_expired, histVars, traffic, next_cleanup>>

\* _process_commands after the processing time, and run() up to its next yield.
DeviceProcessDone(d) ==
    /\ devices[d].pc = "process"
    /\ IsDue(devices[d].due)
    /\ now' = devices[d].due
    /\ \E sleep_duration \in config.sleep_durations :
           devices' = [devices EXCEPT ![d] = GoToSleep(@, now', sleep_duration)]
    /\ UNCHANGED <<config, schedVars, histVars, pending_acks, uplink_count, downlink_count,
                   duty_cycle_tracker, downlinks, traffic, next_cleanup, metrics,
                   uplinks_log, applied_log>>

\* NetworkSimulator._transmit_downlink when the RX window opens: the radio
\* transmission starts.
DownlinkTransmit(i) ==
    /\ downlinks[i].phase = "rx_wait"
    /\ IsDue(downlinks[i].due)
    /\ now' = downlinks[i].due
    /\ \E sf \in config.spreading_factors, success \in config.outcomes :
           LET airtime_ms == CalculateAirtime(downlinks[i].packet.size_bytes, sf)
           IN  downlinks' = [downlinks EXCEPT ![i] =
                   [@ EXCEPT !.phase = "air", !.due = now' + airtime_ms,
                             !.airtime_ms = airtime_ms, !.success = success,
                             !.tx_ms = now']]
    /\ UNCHANGED <<config, schedVars, histVars, pending_acks, uplink_count, downlink_count,
                   devices, duty_cycle_tracker, traffic, next_cleanup, metrics,
                   uplinks_log, applied_log>>

\* NetworkSimulator._transmit_downlink after the airtime, with
\* EndDevice.receive_downlink if the frame got through, and the end of
\* Gateway._send_downlink.
DownlinkDone(i) ==
    /\ downlinks[i].phase = "air"
    /\ IsDue(downlinks[i].due)
    /\ now' = downlinks[i].due
    /\ LET dl == downlinks[i]
           packet == dl.packet
           d == packet.dest_id
           delivered == dl.success /\ d \in SimDevices
           transmitted == RecordTransmission(metrics, packet, "downlink", dl.success)
           received == IF delivered
                       THEN RecordDeviceRx(RecordAckReceived(transmitted, AcksIn(packet)),
                                           packet.protocol)
                       ELSE transmitted
       IN  /\ devices' = IF delivered
                         THEN [devices EXCEPT ![d] = ReceiveDownlink(@, packet, now')]
                         ELSE devices
           /\ metrics' = RecordGatewayTx(received, packet)
           /\ downlinks' = [downlinks EXCEPT ![i] =
                   [@ EXCEPT !.phase = "done", !.due = Never, !.done_ms = now',
                             !.parsed = IF delivered THEN ParseDownlinkPacket(packet)
                                        ELSE <<>>]]
    /\ UNCHANGED <<config, schedVars, histVars, pending_acks, uplink_count, downlink_count,
                   duty_cycle_tracker, traffic, next_cleanup, uplinks_log, applied_log>>

Next ==
    \/ \E d \in SimDevices : TrafficUplink(d)
    \/ TrafficCommand
    \/ GatewayCleanup
    \/ \E d \in SimDevices : DeviceWake(d)
    \/ \E d \in SimDevices : DeviceUplinkDone(d)
    \/ \E d \in SimDevices : DeviceProcessDone(d)
    \/ \E i \in 1..Len(downlinks) : DownlinkTransmit(i)
    \/ \E i \in 1..Len(downlinks) : DownlinkDone(i)

Spec == Init /\ [][Next]_vars

(***************************************************************************)
(* A run with frequent telemetry on the slowest data rate: a message every *)
(* 30 s (uplink.interval_s), spreading factor 12, no loss, every CoAP      *)
(* message non-confirmable.  The device sleeps 9 to 10 minutes whatever    *)
(* the traffic is, so it wakes with a backlog.                             *)
(***************************************************************************)
DutyUplinkMessages == 17

DutyUplinkIntervalMs == 30000

DutyConfig ==
    [BaseConfig EXCEPT
        !.spreading_factors = {12},
        !.outcomes = {TRUE},
        !.confirmable = {FALSE},
        !.uplink_intervals = {DutyUplinkIntervalMs},
        !.command_intervals = {600000},
        !.max_uplink_messages = DutyUplinkMessages,
        !.max_traffic_commands = 1]

DutyInit == InitWith(DutyConfig)

DutySpec == DutyInit /\ [][Next]_vars

(***************************************************************************)
(* A run in which the device wakes with a backlog on the fastest data      *)
(* rate: a message every 30 s, spreading factor 7, no loss, and a second   *)
(* command that reaches the gateway while the device is still sending the  *)
(* backlog (uniform pattern: a command every 3600000 / rate ms).           *)
(***************************************************************************)
AckCommandIntervalMs == 601000

AckConfig ==
    [DutyConfig EXCEPT
        !.spreading_factors = {7},
        !.command_intervals = {AckCommandIntervalMs},
        !.max_traffic_commands = 2]

AckInit == InitWith(AckConfig)

AckSpec == AckInit /\ [][Next]_vars

(***************************************************************************)
(* A run with a scheduler queue of QueueSize entries (queue_size of the    *)
(* gateway configuration), so that commands are also evicted.              *)
(***************************************************************************)
ConserveConfig ==
    [BaseConfig EXCEPT
        !.confirmable = {FALSE},
        !.queue_size = QueueSize]

ConserveInit == InitWith(ConserveConfig)

ConserveSpec == ConserveInit /\ [][Next]_vars

(***************************************************************************)
(* A run whose commands are time synchronisations (cmd_type 4): the        *)
(* payload _generate_command_payload builds for them is int(time.time())   *)
(* as four bytes, a reading of the wall clock of the machine the           *)
(* simulation runs on, which np.random.seed does not determine.            *)
(***************************************************************************)
TimeSyncCmdType == 4

\* Readings of time.time(): 2026-10-26 and 2026-11-20, in seconds since 1970.
WallClocks == {1793000000, 1795162112}

\* struct.pack('>I', timestamp)
TimeSyncPayload(timestamp) ==
    <<(timestamp \div 16777216) % 256, (timestamp \div 65536) % 256>> \o U16BE(timestamp)

ClockConfig ==
    [BaseConfig EXCEPT
        !.outcomes = {TRUE},
        !.traffic_commands =
            {[priority |-> "normal", cmd_type |-> TimeSyncCmdType,
              payload |-> TimeSyncPayload(timestamp)] : timestamp \in WallClocks}]

ClockInit == InitWith(ClockConfig)

ClockSpec == ClockInit /\ [][Next]_vars

(***************************************************************************)
(* Scenario S1: the NOVEL protocol alone, one device, no radio loss, a     *)
(* telemetry message every 60 s, a run of 10 simulated minutes.  With a    *)
(* downlink rate of 0 _generate_downlink_commands still queues a command   *)
(* at the start and every 60000 ms.                                        *)
(***************************************************************************)
S1UplinkIntervalMs == 60000
S1CommandIntervalMs == 60000
S1DurationMs == 600000
S1UplinkMessages == 12
S1TrafficCommands == 10

\* _calculate_sleep_duration draws from 540000..660000 ms.
S1SleepDurations == {540000, 599000, 630000}

\* The first message comes after a draw from 0..uplink_interval_ms.
S1InitialUplinkDelays == {0, 30000}

S1Config ==
    [BaseConfig EXCEPT
        !.protocols = <<"novel_lpwan">>,
        !.sleep_durations = S1SleepDurations,
        !.spreading_factors = {12},
        !.outcomes = {TRUE},
        !.initial_uplink_delays = S1InitialUplinkDelays,
        !.uplink_intervals = {S1UplinkIntervalMs},
        !.command_intervals = {S1CommandIntervalMs},
        !.traffic_commands =
            {[priority |-> "critical", cmd_type |-> 0, payload |-> U16BE(256)]},
        !.max_uplink_messages = S1UplinkMessages,
        !.max_traffic_commands = S1TrafficCommands,
        !.duration_ms = S1DurationMs]

S1Init == InitWith(S1Config)

S1Spec == S1Init /\ [][Next]_vars

(***************************************************************************)
(* The AckTracker on its own: uplinks are recorded with consecutive        *)
(* sequence numbers from the first one the tracker sees, acknowledged      *)
(* entries are dropped with mark_acked, and generate_ack_bitmap is called  *)
(* on what is outstanding.                                                 *)
(***************************************************************************)
\* The sequence number of the first uplink the tracker records.
TrackerFirstSeqs == {0, 7, 65534}

\* The bitmaps mark_acked is called with (the base is the oldest entry).
TrackerBitmaps == {1, 2, 3}

TrackerInit == SchedInit

\* receive_uplink for a NOVEL uplink: last_seq_uplink and add_pending.
TrackerAddPending(d) ==
    /\ now < MaxTrackerAdds * MsPerSecond
    /\ \E first \in TrackerFirstSeqs :
        LET seq == IF device_sessions[d].present
                   THEN (device_sessions[d].last_seq_uplink + 1) % SeqModulus
                   ELSE first
        IN
        /\ device_sessions' = [device_sessions EXCEPT ![d] =
               [@ EXCEPT !.present = TRUE, !.last_seq_uplink = seq, !.last_seen_ms = now]]
        /\ pending_acks' = [pending_acks EXCEPT ![d] = AddPending(@, seq, now)]
        /\ lastOp' = [op |-> "add_pending", device_id |-> d, seq_num |-> seq]
    /\ now' = now + MsPerSecond
    /\ UNCHANGED <<config, queues, cmd_counter, commands_expired, enqueued, removals,
                   evictions, uplink_count, downlink_count, devices, duty_cycle_tracker,
                   downlinks, traffic, next_cleanup, metrics, uplinks_log, applied_log>>

TrackerMarkAcked(d) ==
    /\ DOMAIN pending_acks[d] # {}
    /\ \E bitmap \in TrackerBitmaps, base \in DOMAIN pending_acks[d] :
        /\ \A t \in DOMAIN pending_acks[d] : pending_acks[d][base] <= pending_acks[d][t]
        /\ pending_acks' = [pending_acks EXCEPT ![d] = MarkAcked(@, bitmap, base)]
        /\ lastOp' = [op |-> "mark_acked", device_id |-> d, bitmap |-> bitmap,
                      base |-> base, args |-> <<d, bitmap, base>>,
                      before |-> pending_acks, generated |-> FALSE]
    /\ UNCHANGED <<config, now, schedVars, enqueued, removals, evictions, uplink_count,
                   downlink_count, devices, duty_cycle_tracker, downlinks, traffic,
                   next_cleanup, metrics, uplinks_log, applied_log>>

TrackerGenerate(d) ==
    /\ lastOp' = [op |-> "generate_ack_bitmap", device_id |-> d,
                  pending |-> pending_acks[d],
                  result |-> GenerateAckBitmap(pending_acks[d])]
    /\ UNCHANGED <<config, now, schedVars, enqueued, removals, evictions, simVars>>

\* mark_acked with the pair generate_ack_bitmap has just returned for the
\* device.
TrackerMarkGenerated(d) ==
    /\ lastOp.op = "generate_ack_bitmap"
    /\ lastOp.device_id = d
    /\ LET bitmap == lastOp.result.ack_bitmap
           base == lastOp.result.ack_base
       IN  /\ pending_acks' = [pending_acks EXCEPT ![d] = MarkAcked(@, bitmap, base)]
           /\ lastOp' = [op |-> "mark_acked", device_id |-> d, bitmap |-> bitmap,
                         base |-> base, args |-> <<d, bitmap, base>>,
                         before |-> pending_acks, generated |-> TRUE]
    /\ UNCHANGED <<config, now, schedVars, enqueued, removals, evictions, uplink_count,
                   downlink_count, devices, duty_cycle_tracker, downlinks, traffic,
                   next_cleanup, metrics, uplinks_log, applied_log>>

TrackerNext ==
    \/ \E d \in Devices : TrackerAddPending(d)
    \/ \E d \in Devices : TrackerMarkAcked(d)
    \/ \E d \in Devices : TrackerGenerate(d)
    \/ \E d \in Devices : TrackerMarkGenerated(d)

TrackerSpec == TrackerInit /\ [][TrackerNext]_vars

(***************************************************************************)
(* The epochs on their own: the gateway issues NOVEL commands with         *)
(* queue_command, takes them from the queue as it does for a downlink      *)
(* (gateway.py:279-282), the commands reach the device as the dictionaries *)
(* receive_downlink appends to pending_commands, and _process_commands     *)
(* handles them.  One command is on its way at a time.                     *)
(***************************************************************************)
\* The command type that is issued until its epoch wraps; the other types
\* are issued only among the first MaxOtherEpochCmds commands.
EpochCmdType == 0

EpochTrafficCommands ==
    { [priority |-> "normal", cmd_type |-> EpochCmdType, payload |-> U16BE(256)],
      [priority |-> "normal", cmd_type |-> 2, payload |-> <<3>>] }

EpochConfig ==
    [BaseConfig EXCEPT
        !.protocols = <<"novel_lpwan">>,
        !.sleep_durations = {Never},
        !.initial_uplink_delays = {Never},
        !.traffic_commands = EpochTrafficCommands,
        !.max_traffic_commands = MaxEpochCmds]

EpochInit == InitWith(EpochConfig)

\* What the device's parser hands to receive_downlink for a command.
RECURSIVE AsParsed(_)
AsParsed(cmds) ==
    IF cmds = <<>> THEN <<>>
    ELSE <<[cmd_type |-> Head(cmds).cmd_type, epoch_id |-> Head(cmds).epoch_id,
            payload |-> Head(cmds).payload]>> \o AsParsed(Tail(cmds))

EpochIssue ==
    /\ cmd_counter < config.max_traffic_commands
    /\ \A d \in SimDevices : queues[d] = <<>> /\ devices[d].pending_commands = <<>>
    /\ \E d \in SimDevices, c \in config.traffic_commands :
        /\ c.cmd_type = EpochCmdType \/ cmd_counter < MaxOtherEpochCmds
        /\ LET g == [device_sessions |-> device_sessions, cmd_counter |-> cmd_counter,
                     queues |-> queues, queue_size |-> DefaultQueueSize]
               r == QueueCommand(g, now, d, c.cmd_type, c.payload, c.priority,
                                 DeadlineFor(c.priority), "novel_lpwan")
           IN  /\ device_sessions' = r.device_sessions
               /\ cmd_counter' = r.cmd_counter
               /\ queues' = r.queues
               /\ lastOp' = [op |-> "issue", device_id |-> d, cmd |-> r.cmd]
    /\ UNCHANGED <<config, now, commands_expired, enqueued, removals, evictions, simVars>>

EpochDeliver(d) ==
    /\ queues[d] # <<>>
    /\ LET r == GetCommandsForDevice(queues[d], NovelBudget, now, DefaultMaxPayload,
                                     "novel_lpwan")
           delivered == WithProtocol(AsParsed(r.selected), "novel_lpwan", now)
       IN  /\ queues' = [queues EXCEPT ![d] = r.queue]
           /\ devices' = [devices EXCEPT ![d].pending_commands = @ \o delivered]
           /\ lastOp' = [op |-> "deliver", device_id |-> d, cmds |-> delivered]
    /\ UNCHANGED <<config, now, cmd_counter, device_sessions, commands_expired, enqueued,
                   removals, evictions, pending_acks, uplink_count, downlink_count,
                   duty_cycle_tracker, downlinks, traffic, next_cleanup, metrics,
                   uplinks_log, applied_log>>

EpochProcess(d) ==
    /\ devices[d].pending_commands # <<>>
    /\ LET r == ProcessCommands(devices[d], now)
       IN  /\ devices' = [devices EXCEPT ![d] = r.dev]
           /\ applied_log' = applied_log \o LogApplied(r.applied, d, now)
           /\ metrics' = RecordApplied(metrics, r.applied, now)
           /\ lastOp' = [op |-> "process", device_id |-> d,
                         cmds |-> devices[d].pending_commands, applied |-> r.applied,
                         redelivery |-> lastOp.op = "redeliver"]
    /\ UNCHANGED <<config, now, schedVars, enqueued, removals, evictions, pending_acks,
                   uplink_count, downlink_count, duty_cycle_tracker, downlinks, traffic,
                   next_cleanup, uplinks_log>>

EpochNext ==
    \/ EpochIssue
    \/ \E d \in SimDevices : EpochDeliver(d)
    \/ \E d \in SimDevices : EpochProcess(d)

EpochSpec == EpochInit /\ [][EpochNext]_vars

(***************************************************************************)
(* Scenario S3: a few commands, and a channel that may deliver again a     *)
(* command the device has applied.                                         *)
(***************************************************************************)
S3Config == [EpochConfig EXCEPT !.max_traffic_commands = S3TrafficCommands]

S3Init == InitWith(S3Config)

S3Redeliver(d) ==
    /\ queues[d] = <<>>
    /\ devices[d].pending_commands = <<>>
    /\ \E i \in 1..Len(applied_log) :
           LET again == WithProtocol(AsParsed(<<applied_log[i]>>), "novel_lpwan", now)
           IN  /\ applied_log[i].device_id = d
               /\ devices' = [devices EXCEPT ![d].pending_commands = @ \o again]
               /\ lastOp' = [op |-> "redeliver", device_id |-> d, cmds |-> again]
    /\ UNCHANGED <<config, now, schedVars, enqueued, removals, evictions, pending_acks,
                   uplink_count, downlink_count, duty_cycle_tracker, downlinks, traffic,
                   next_cleanup, metrics, uplinks_log, applied_log>>

S3Next ==
    \/ EpochIssue
    \/ \E d \in SimDevices : EpochDeliver(d)
    \/ \E d \in SimDevices : EpochProcess(d)
    \/ \E d \in SimDevices : S3Redeliver(d)

S3Spec == S3Init /\ [][S3Next]_vars

(***************************************************************************)
(* Commands of one type with different priorities: the gateway may issue   *)
(* a command while earlier ones are still queued, so the scheduler orders  *)
(* what it hands to a downlink.                                            *)
(***************************************************************************)
PriorityTrafficCommands ==
    { [priority |-> "normal", cmd_type |-> EpochCmdType, payload |-> U16BE(256)],
      [priority |-> "critical", cmd_type |-> EpochCmdType, payload |-> U16BE(256)] }

PriorityConfig ==
    [EpochConfig EXCEPT !.traffic_commands = PriorityTrafficCommands,
                        !.max_traffic_commands = PriorityTrafficCommandCount]

PriorityInit == InitWith(PriorityConfig)

\* queue_command, also while commands are queued.
PriorityIssue ==
    /\ cmd_counter < config.max_traffic_commands
    /\ \E d \in SimDevices, c \in config.traffic_commands :
        LET g == [device_sessions |-> device_sessions, cmd_counter |-> cmd_counter,
                  queues |-> queues, queue_size |-> DefaultQueueSize]
            r == QueueCommand(g, now, d, c.cmd_type, c.payload, c.priority,
                              DeadlineFor(c.priority), "novel_lpwan")
        IN  /\ device_sessions' = r.device_sessions
            /\ cmd_counter' = r.cmd_counter
            /\ queues' = r.queues
            /\ lastOp' = [op |-> "issue", device_id |-> d, cmd |-> r.cmd]
    /\ UNCHANGED <<config, now, commands_expired, enqueued, removals, evictions, simVars>>

PriorityNext ==
    \/ PriorityIssue
    \/ \E d \in SimDevices : EpochDeliver(d)
    \/ \E d \in SimDevices : EpochProcess(d)

PrioritySpec == PriorityInit /\ [][PriorityNext]_vars

(***************************************************************************)
(* The CoAP session of a device on its own: create_uplink_packet called    *)
(* again and again.  uplinks_log holds the requests it built.              *)
(***************************************************************************)

\* What os.urandom(4) may return, two of its values.
CoapTokens == {<<0, 0, 0, 1>>, <<222, 173, 190, 239>>}

\* CoAPProtocol.create_device_state.  The specifications above leave the
\* token out: nothing in them reads it.
CoapDeviceState(token) == [message_id |-> 0, inflight |-> {}, token |-> token]

\* The token create_uplink_packet writes after the four header bytes.
CoapHeaderToken(state) == state.token

AllQosClasses == {"critical", "normal", "best_effort"}

CoapInit ==
    /\ now = 0
    /\ queues = [d \in Devices |-> <<>>]
    /\ cmd_counter = 0
    /\ device_sessions = [d \in Devices |-> NoSession]
    /\ commands_expired = 0
    /\ lastOp = NoOp
    /\ enqueued = [d \in Devices |-> {}]
    /\ removals = [d \in Devices |-> FALSE]
    /\ evictions = [d \in Devices |-> 0]
    /\ config = BaseConfig
    /\ pending_acks = [d \in Devices |-> EmptyDict]
    /\ uplink_count = 0
    /\ downlink_count = 0
    /\ \E token \in CoapTokens :
           devices = [d \in SimDevices |->
                         [InitialDevice(Never) EXCEPT !.coap = CoapDeviceState(token)]]
    /\ duty_cycle_tracker = [d \in SimDevices |-> [last_tx_ms |-> 0, airtime_budget_ms |-> 0]]
    /\ downlinks = <<>>
    /\ traffic = [uplink_next |-> [d \in SimDevices |-> Never],
                  uplinks_generated |-> [d \in SimDevices |-> 0],
                  cmd_next |-> Never, cmds_generated |-> 0]
    /\ next_cleanup = CleanupIntervalMs
    /\ metrics = [p \in MetricProtocols |-> ZeroMetrics]
    /\ uplinks_log = <<>>
    /\ applied_log = <<>>

\* CoAPProtocol.create_uplink_packet for one message of a device.
CoapCreateUplink(d) ==
    /\ devices[d].coap.message_id < MaxCoapRequests
    /\ \E qos_class \in AllQosClasses, confirmable \in BOOLEAN :
           LET msg == [payload_bytes |-> UplinkPayloadBytes, qos_class |-> qos_class,
                       created_ms |-> now]
               r == CreateUplinkPacket(devices[d], d, "coap", msg, confirmable)
           IN  /\ devices' = [devices EXCEPT ![d] = r.dev]
               /\ uplinks_log' = Append(uplinks_log,
                                        [device_id |-> d, message_id |-> r.packet.seq_num,
                                         token |-> CoapHeaderToken(r.dev.coap),
                                         confirmable |-> r.dev.coap.inflight
                                                             # devices[d].coap.inflight])
               /\ lastOp' = [op |-> "coap_uplink", device_id |-> d, qos_class |-> qos_class]
    /\ UNCHANGED <<config, now, schedVars, enqueued, removals, evictions, pending_acks,
                   uplink_count, downlink_count, duty_cycle_tracker, downlinks, traffic,
                   next_cleanup, metrics, applied_log>>

CoapNext == \E d \in SimDevices : CoapCreateUplink(d)

CoapSpec == CoapInit /\ [][CoapNext]_vars

(***************************************************************************)
(* The codecs on their own: NovelHeader.encode and decode                  *)
(* (protocols/novel_lpwan.py), and the downlink frames the gateway builds  *)
(* for the baseline protocols with the parsers of these protocols.         *)
(***************************************************************************)
StructError == "struct.error"
ValueError == "ValueError"

\* Variant of NovelHeaderEncode that shifts prio_class by 2 bits instead of 3.
NovelHeaderEncodeOverlap(h) ==
    LET byte0 == (h.msg_type % 8) * 32 + (h.prio_class % 4) * 4 + (h.topic_class % 8)
    IN  IF /\ h.seq_num \in 0..(SeqModulus - 1)
           /\ h.flags \in 0..255
           /\ h.token_short \in 0..255
        THEN <<byte0>> \o U16BE(h.seq_num) \o <<h.flags, h.token_short>>
        ELSE StructError

\* NovelHeader.encode: struct.pack('>BHBB', ...) refuses a value that does
\* not fit its field.
NovelHeaderEncode(h) ==
    LET byte0 == (h.msg_type % 8) * 32 + (h.prio_class % 4) * 8 + (h.topic_class % 8)
    IN  IF /\ h.seq_num \in 0..(SeqModulus - 1)
           /\ h.flags \in 0..255
           /\ h.token_short \in 0..255
        THEN <<byte0>> \o U16BE(h.seq_num) \o <<h.flags, h.token_short>>
        ELSE StructError

\* NovelHeader.decode
NovelHeaderDecode(data) ==
    IF Len(data) < NovelHeaderSize THEN ValueError
    ELSE [msg_type |-> (data[1] \div 32) % 8,
          prio_class |-> (data[1] \div 8) % 4,
          topic_class |-> data[1] % 8,
          seq_num |-> FromU16BE(data[2], data[3]),
          flags |-> data[4],
          token_short |-> data[5]]

\* The headers the codec is run on: every msg_type, prio_class and
\* topic_class, and the ends and the byte boundaries of the other fields.
HeaderSeqNums == {0, 1, 255, 256, 65535}
HeaderFlags == {0, 1, 128, 255}
HeaderTokens == {0, 255}

Headers ==
    [msg_type : 0..7, prio_class : 0..3, topic_class : 0..7,
     seq_num : HeaderSeqNums, flags : HeaderFlags, token_short : HeaderTokens]

\* The commands the baseline frames are built for: PendingCommand objects as
\* the scheduler keeps them.
CodecPayloads == {<<>>, <<3>>, <<1, 0>>, <<255, 7>>}

CodecCommands ==
    [cmd_id : {0, 1, 69}, cmd_type : 0..7, epoch_id : {1, 2, 255},
     payload : CodecPayloads]

BaselineProtocols == {"mqtt_sn", "coap"}

CodecInit == SchedInit

CodecEncodeHeader ==
    /\ lastOp.op = "none"
    /\ \E h \in Headers :
           lastOp' = [op |-> "encode", header |-> h, data |-> NovelHeaderEncode(h)]
    /\ UNCHANGED <<now, schedVars, enqueued, removals, evictions, simVars, config>>

CodecDecodeHeader ==
    /\ lastOp.op = "encode"
    /\ lastOp.data # StructError
    /\ lastOp' = [op |-> "decode", header |-> lastOp.header, data |-> lastOp.data,
                  decoded |-> NovelHeaderDecode(lastOp.data)]
    /\ UNCHANGED <<now, schedVars, enqueued, removals, evictions, simVars, config>>

\* _create_mqtt_sn_downlink or _create_coap_downlink for a command.
CodecBuildDownlink ==
    /\ lastOp.op = "none"
    /\ \E proto_name \in BaselineProtocols, cmd \in CodecCommands :
           lastOp' = [op |-> "build", cmd |-> cmd,
                      packet |-> IF proto_name = "mqtt_sn"
                                 THEN CreateMqttSnDownlink(0, cmd, now)
                                 ELSE CreateCoapDownlink(0, cmd, now)]
    /\ UNCHANGED <<now, schedVars, enqueued, removals, evictions, simVars, config>>

\* parse_downlink_packet of the frame's protocol.
CodecParseDownlink ==
    /\ lastOp.op = "build"
    /\ lastOp' = [op |-> "parse", cmd |-> lastOp.cmd, packet |-> lastOp.packet,
                  parsed |-> ParseDownlinkPacket(lastOp.packet)]
    /\ UNCHANGED <<now, schedVars, enqueued, removals, evictions, simVars, config>>

\* The commands and acknowledgement fields the NOVEL frames are built for.
NovelCodecCommands ==
    [cmd_id : {0}, cmd_type : {0, 2}, epoch_id : {1, 255}, payload : {<<>>, <<3>>}]

RECURSIVE ListsUpTo(_, _)
ListsUpTo(S, n) ==
    IF n = 0 THEN {<<>>}
    ELSE LET shorter == ListsUpTo(S, n - 1)
         IN  shorter \cup {Append(l, x) : l \in {m \in shorter : Len(m) = n - 1}, x \in S}

NovelAckBases == {0, 65535}
NovelAckBitmaps == {0, 5}

\* _create_novel_downlink for up to NovelBudget commands.
CodecBuildNovelDownlink ==
    /\ lastOp.op = "none"
    /\ \E commands \in ListsUpTo(NovelCodecCommands, NovelBudget),
          ack_base \in NovelAckBases, ack_bitmap \in NovelAckBitmaps :
           lastOp' = [op |-> "build_novel", commands |-> commands,
                      packet |-> CreateNovelDownlink(0, commands, ack_base, ack_bitmap, now)]
    /\ UNCHANGED <<now, schedVars, enqueued, removals, evictions, simVars, config>>

\* NovelLPWANProtocol.parse_downlink_packet on the gateway's frame.
CodecParseNovelDownlink ==
    /\ lastOp.op = "build_novel"
    /\ lastOp' = [op |-> "parse_novel", commands |-> lastOp.commands,
                  packet |-> lastOp.packet,
                  parsed |-> ParseDownlinkPacket(lastOp.packet)]
    /\ UNCHANGED <<now, schedVars, enqueued, removals, evictions, simVars, config>>

\* The length below which the parser of a protocol returns no command.
MinFrameSize(proto_name) ==
    CASE proto_name = "novel_lpwan" -> NovelHeaderSize + 2
      [] proto_name = "mqtt_sn" -> MqttSnPublishMinSize
      [] proto_name = "coap" -> CoapMinSize

\* The first n bytes of the frame the gateway builds for a command.
ShortFrame(proto_name, n, ack_bitmap) ==
    LET cmd == [cmd_id |-> 0, cmd_type |-> 0, epoch_id |-> 1, payload |-> <<3>>]
        full == CASE proto_name = "novel_lpwan" ->
                         CreateNovelDownlink(0, <<cmd>>, 0, ack_bitmap, now)
                  [] proto_name = "mqtt_sn" -> CreateMqttSnDownlink(0, cmd, now)
                  [] proto_name = "coap" -> CreateCoapDownlink(0, cmd, now)
    IN  [full EXCEPT !.payload = SubSeq(@, 1, n), !.size_bytes = n]

\* receive_downlink on a frame that is too short for its parser.
CodecReceiveShort ==
    /\ lastOp.op = "none"
    /\ \E d \in SimDevices, proto_name \in ProtocolSet, n \in 0..(NovelHeaderSize + 2),
          ack_bitmap \in NovelAckBitmaps :
        /\ n < MinFrameSize(proto_name)
        /\ LET packet == ShortFrame(proto_name, n, ack_bitmap)
           IN  /\ devices' = [devices EXCEPT ![d] = ReceiveDownlink(@, packet, now)]
               /\ metrics' = RecordDeviceRx(RecordAckReceived(metrics, AcksIn(packet)),
                                            proto_name)
               /\ lastOp' = [op |-> "receive_short", device_id |-> d, packet |-> packet,
                             parsed |-> ParseDownlinkPacket(packet),
                             header |-> IF proto_name = "novel_lpwan"
                                              /\ n < NovelHeaderSize
                                        THEN NovelHeaderDecode(packet.payload)
                                        ELSE None,
                             device_before |-> devices[d],
                             metrics_before |-> metrics]
    /\ UNCHANGED <<config, now, schedVars, enqueued, removals, evictions, pending_acks,
                   uplink_count, downlink_count, duty_cycle_tracker, downlinks, traffic,
                   next_cleanup, uplinks_log, applied_log>>

CodecNext ==
    \/ CodecEncodeHeader
    \/ CodecDecodeHeader
    \/ CodecBuildDownlink
    \/ CodecParseDownlink
    \/ CodecBuildNovelDownlink
    \/ CodecParseNovelDownlink
    \/ CodecReceiveShort

CodecSpec == CodecInit /\ [][CodecNext]_vars

(***************************************************************************)
(* Properties of the scheduler.                                            *)
(***************************************************************************)
Range(s) == {s[i] : i \in 1..Len(s)}

SameKey(a, b) == a.priority = b.priority /\ a.deadline_ms = b.deadline_ms

Min2(a, b) == IF a < b THEN a ELSE b

RECURSIVE SumSizes(_)
SumSizes(s) == IF s = <<>> THEN 0 ELSE CmdSize(Head(s)) + SumSizes(Tail(s))

\* R holds n of the best entries of E: nothing left out is strictly better
\* than something kept.
IsBestN(R, E, n) ==
    /\ R \subseteq E
    /\ Cardinality(R) = Min2(n, Cardinality(E))
    /\ \A r \in R, e \in E \ R : ~Lt(e, r)

\* C2: two commands with the same (priority, deadline_ms) that one call of
\* get_commands_for_device returns come out in the order they were enqueued
\* (cmd_id is the enqueue order).
C2_ExtractionOrderIsInsertionOrder ==
    lastOp.op = "get" =>
        \A i, j \in 1..Len(lastOp.selected) :
            (i < j /\ SameKey(lastOp.selected[i], lastOp.selected[j]))
                => lastOp.selected[i].cmd_id < lastOp.selected[j].cmd_id

\* C8: get_commands_for_device returns at most budget entries of the device's
\* queue, of the requested protocol, still live, in ascending (priority,
\* deadline_ms) order, of cumulative size at most max_payload, and removes
\* exactly the returned entries from the queue.
C8_GetCommandsContract ==
    lastOp.op = "get" =>
        LET sel == lastOp.selected
            d == lastOp.device_id
            before == lastOp.before[d]
            after == lastOp.after[d]
        IN  /\ Len(sel) <= lastOp.budget
            /\ \A i \in 1..Len(sel) :
                /\ sel[i] \in Range(before)
                /\ sel[i].device_id = d
                /\ lastOp.protocol # None => sel[i].protocol = lastOp.protocol
                /\ sel[i].deadline_ms >= lastOp.current_time_ms
            /\ \A i, j \in 1..Len(sel) : i < j => (sel[i] # sel[j] /\ ~Lt(sel[j], sel[i]))
            /\ SumSizes(sel) <= lastOp.max_payload
            /\ Range(after) = Range(before) \ Range(sel)
            /\ Len(after) = Len(before) - Len(sel)
            /\ \A e \in Devices \ {d} : lastOp.after[e] = lastOp.before[e]

\* A call that returned a command and left an expired one behind.
C8_Witness ==
    /\ lastOp.op = "get"
    /\ Len(lastOp.selected) >= 1
    /\ \E c \in Range(lastOp.after[lastOp.device_id]) :
           c.deadline_ms < lastOp.current_time_ms

\* C10 as claimed: no queue holds more than queue_size entries, and once
\* enqueues have exceeded the capacity the queue holds the queue_size best
\* entries of everything enqueued and not extracted.
C10_ResidualIsBestOfAllNotExtracted ==
    \A d \in Devices :
        /\ Len(queues[d]) <= QueueSize
        /\ evictions[d] > 0 => IsBestN(Range(queues[d]), enqueued[d], QueueSize)

\* C10 as amended: no queue holds more than queue_size entries; an enqueue
\* leaves the queue_size best entries of the queue's content before it plus
\* the new command; and while nothing of the device has been extracted or
\* swept, the queue holds the queue_size best of everything enqueued.
C10_ResidualIsBestOfQueuePlusNew ==
    /\ \A d \in Devices :
        /\ Len(queues[d]) <= QueueSize
        /\ Cardinality(Range(queues[d])) = Len(queues[d])
        /\ ~removals[d] => IsBestN(Range(queues[d]), enqueued[d], QueueSize)
    /\ lastOp.op = "enqueue" =>
        /\ IsBestN(Range(lastOp.after), Range(lastOp.before) \cup {lastOp.cmd}, QueueSize)
        /\ Cardinality(Range(lastOp.after)) = Len(lastOp.after)

\* An enqueue into a full queue after which the new command is in the queue.
C10_Witness ==
    /\ lastOp.op = "enqueue"
    /\ Len(lastOp.before) = QueueSize
    /\ lastOp.cmd \in Range(lastOp.after)
    /\ lastOp.cmd \in Range(queues[lastOp.device_id])

(***************************************************************************)
(* Properties of the simulated system.                                     *)
(***************************************************************************)
IsNovel(x) == x.protocol = "novel_lpwan"

\* The downlink frames that reached their device.
Delivered(i) == downlinks[i].phase = "done" /\ downlinks[i].success

\* The device has gone through a whole turn of run() that began after t.
HandledSince(d, t) == devices[d].pc = "sleep" /\ devices[d].woke_ms > t

\* The entries of applied_log for a command of the NOVEL protocol.
AppliedAs(device_id, cmd_type, epoch_id) ==
    {j \in 1..Len(applied_log) :
        /\ IsNovel(applied_log[j])
        /\ applied_log[j].device_id = device_id
        /\ applied_log[j].cmd_type = cmd_type
        /\ applied_log[j].epoch_id = epoch_id}

\* C1: a NOVEL command carried by a downlink that reached the device has been
\* applied exactly once when the device has handled its pending commands.
C1_DeliveredCommandAppliedOnce ==
    \A i \in 1..Len(downlinks) :
        (/\ IsNovel(downlinks[i].packet)
         /\ Delivered(i)
         /\ HandledSince(downlinks[i].packet.dest_id, downlinks[i].done_ms))
            => \A k \in 1..Len(downlinks[i].cmds) :
                   Cardinality(AppliedAs(downlinks[i].packet.dest_id,
                                         downlinks[i].cmds[k].cmd_type,
                                         downlinks[i].cmds[k].epoch_id)) = 1

\* Some downlink that is in flight or done carries the command.
CarriedAgain(i, cmd) ==
    \E j \in 1..Len(downlinks) :
        j # i /\ \E k \in 1..Len(downlinks[j].cmds) : downlinks[j].cmds[k].cmd_id = cmd.cmd_id

\* C3: a command carried by a downlink that was lost, with retries left and
\* its deadline ahead, is back in the queue of its device or carried by
\* another downlink.
C3_LostCommandIsRequeued ==
    \A i \in 1..Len(downlinks) :
        (downlinks[i].phase = "done" /\ ~downlinks[i].success)
            => \A k \in 1..Len(downlinks[i].cmds) :
                   LET cmd == downlinks[i].cmds[k]
                   IN  (cmd.retries < cmd.max_retries /\ cmd.deadline_ms > now)
                           => \/ \E c \in Range(queues[cmd.device_id]) : c.cmd_id = cmd.cmd_id
                              \/ CarriedAgain(i, cmd)

\* C4: when the radio transmission of a downlink starts, after the RX-window
\* delay, no command it carries is past its deadline.
C4_NoExpiredCommandTransmitted ==
    \A i \in 1..Len(downlinks) :
        downlinks[i].tx_ms # Never
            => \A k \in 1..Len(downlinks[i].cmds) :
                   downlinks[i].cmds[k].deadline_ms >= downlinks[i].tx_ms

\* The uplinks of the NOVEL protocol the gateway received from a device with
\* a sequence number.
ReceivedNovel(device_id, seq_num) ==
    {j \in 1..Len(uplinks_log) :
        /\ IsNovel(uplinks_log[j])
        /\ uplinks_log[j].success
        /\ uplinks_log[j].device_id = device_id
        /\ uplinks_log[j].seq_num = seq_num}

AckedSeq(packet, i) == (packet.seq_num + i) % SeqModulus

NovelApplied(device_id, cmd_type) ==
    SelectSeq(applied_log,
              LAMBDA e : IsNovel(e) /\ e.device_id = device_id /\ e.cmd_type = cmd_type)

AppliedTypes(device_id) ==
    {applied_log[j].cmd_type : j \in {k \in 1..Len(applied_log) :
        IsNovel(applied_log[k]) /\ applied_log[k].device_id = device_id}}

\* C6: the epochs of the NOVEL commands a device has applied strictly increase
\* per command type, the epoch it stores for a type is the one it applied last,
\* and so no command is applied twice.
C6_AppliedEpochsIncrease ==
    \A d \in SimDevices :
        /\ DOMAIN devices[d].epoch_ids = AppliedTypes(d)
        /\ \A t \in AppliedTypes(d) :
            LET a == NovelApplied(d, t)
            IN  /\ a[1].epoch_id > 0
                /\ \A j \in 1..(Len(a) - 1) : a[j + 1].epoch_id > a[j].epoch_id
                /\ devices[d].epoch_ids[t] = a[Len(a)].epoch_id

\* A frame reached the device with two commands of one type, the second with
\* an epoch that is not newer; the device handled them and applied one.
C6_Witness ==
    \E i \in 1..Len(downlinks) :
        /\ IsNovel(downlinks[i].packet)
        /\ Delivered(i)
        /\ HandledSince(downlinks[i].packet.dest_id, downlinks[i].done_ms)
        /\ Len(downlinks[i].parsed) >= 2
        /\ downlinks[i].parsed[1].cmd_type = downlinks[i].parsed[2].cmd_type
        /\ downlinks[i].parsed[2].epoch_id <= downlinks[i].parsed[1].epoch_id
        /\ Len(NovelApplied(downlinks[i].packet.dest_id,
                            downlinks[i].parsed[1].cmd_type)) = 1

\* The NOVEL uplinks of a device, in the order they were sent.
NovelUplinks(device_id) ==
    SelectSeq(uplinks_log, LAMBDA e : IsNovel(e) /\ e.device_id = device_id)

\* C7: each NOVEL uplink of a device carries the sequence number of the one
\* before plus 1 mod 65536, whether or not that one got through.
C7_SequenceNumbersAdvance ==
    \A d \in SimDevices :
        LET u == NovelUplinks(d)
        IN  /\ \A j \in 1..(Len(u) - 1) :
                   u[j + 1].seq_num = (u[j].seq_num + 1) % SeqModulus
            /\ Len(u) > 0 =>
                   /\ devices[d].next_seq_uplink = (u[Len(u)].seq_num + 1) % SeqModulus
                   /\ (devices[d].pc = "tx" /\ IsNovel(devices[d].packet))
                          => devices[d].packet.seq_num = devices[d].next_seq_uplink

\* Two NOVEL uplinks were sent, the first one was lost.
C7_Witness ==
    \E d \in SimDevices :
        /\ Len(NovelUplinks(d)) >= 2
        /\ ~NovelUplinks(d)[1].success
        /\ NovelUplinks(d)[2].seq_num = NovelUplinks(d)[1].seq_num + 1

\* The uplinks the gateway received, in the order it received them.
ReceivedUplinks == SelectSeq(uplinks_log, LAMBDA e : e.success)

FramesFrom(n) == {i \in 1..Len(downlinks) : downlinks[i].trigger = n}

C11_EvictionsAreCounted ==
    \A d \in Devices : evictions[d] <= commands_expired

(***************************************************************************)
(* Duty cycle.                                                             *)
(***************************************************************************)
\* The airtime of the uplinks of a device that ended in the window of
\* DutyCycleWindowMs before t.
RECURSIVE WindowAirtime(_, _, _)
WindowAirtime(log, device_id, t) ==
    IF log = <<>> THEN 0
    ELSE (IF /\ Head(log).device_id = device_id
             /\ Head(log).done_ms > t - DutyCycleWindowMs
             /\ Head(log).done_ms <= t
          THEN Head(log).airtime_ms ELSE 0)
         + WindowAirtime(Tail(log), device_id, t)

\* The longest frame a device has sent.
MaxFrameAirtime(device_id) ==
    LET A == {uplinks_log[j].airtime_ms : j \in {k \in 1..Len(uplinks_log) :
                  uplinks_log[k].device_id = device_id}}
    IN  IF A = {} THEN 0 ELSE CHOOSE a \in A : \A b \in A : b <= a

\* C12: in the one-hour window that ends now, the airtime of a device's
\* transmissions is at most duty_cycle * 3,600,000 ms plus the airtime of one
\* frame.
C12_DutyCycleRespected ==
    \A d \in SimDevices :
        WindowAirtime(uplinks_log, d, now) <= MaxAirtimeMs + MaxFrameAirtime(d)

(***************************************************************************)
(* The acknowledgment window of the gateway.                               *)
(***************************************************************************)
\* The sequence numbers a NOVEL downlink acknowledges.
AckedBy(packet) ==
    {AckedSeq(packet, i) : i \in {k \in 0..(AckWindowSize - 1) :
                                     BitSet(packet.ack_bitmap, k)}}

\* The sequence numbers of the NOVEL uplinks the gateway had received from a
\* device by time t.
ReceivedBy(device_id, t) ==
    {uplinks_log[j].seq_num : j \in {k \in 1..Len(uplinks_log) :
        /\ IsNovel(uplinks_log[k])
        /\ uplinks_log[k].success
        /\ uplinks_log[k].device_id = device_id
        /\ uplinks_log[k].done_ms <= t}}

\* C13: the ack_bitmap of a NOVEL downlink that has been emitted (its radio
\* transmission started when the RX window opened) stands for exactly the
\* uplinks the gateway had received from the device at the instant of the
\* emission: none of them is missing and nothing else is represented.
C13_BitmapIsReceivedSetAtEmission ==
    \A n \in 1..Len(downlinks) :
        (IsNovel(downlinks[n].packet) /\ downlinks[n].tx_ms # Never) =>
            AckedBy(downlinks[n].packet)
                = ReceivedBy(downlinks[n].packet.dest_id, downlinks[n].tx_ms)


\* C14: the ack_bitmap of a NOVEL downlink covers the uplink it answers: the
\* sequence number of that uplink has its bit set relative to ack_base,
\* however many uplinks the gateway received from the device before.
C14_BitmapCoversTriggeringUplink ==
    \A n \in 1..Len(downlinks) :
        IsNovel(downlinks[n].packet) =>
            ReceivedUplinks[downlinks[n].trigger].seq_num \in AckedBy(downlinks[n].packet)


\* The NOVEL downlinks of a device that were handed to the radio before t.
EmittedBefore(device_id, t) ==
    {n \in 1..Len(downlinks) :
        /\ IsNovel(downlinks[n].packet)
        /\ downlinks[n].packet.dest_id = device_id
        /\ downlinks[n].tx_ms # Never
        /\ downlinks[n].tx_ms < t}

\* When the gateway received the last NOVEL uplink of a device (Never if none).
LastNovelReceipt(device_id) ==
    LET T == {uplinks_log[j].done_ms : j \in {k \in 1..Len(uplinks_log) :
                 /\ IsNovel(uplinks_log[k])
                 /\ uplinks_log[k].success
                 /\ uplinks_log[k].device_id = device_id}}
    IN  IF T = {} THEN Never ELSE CHOOSE t \in T : \A u \in T : u <= t

\* C15: the acknowledgment window of a device shrinks: a sequence number that
\* the bitmap of an emitted downlink covered is no longer pending at the
\* gateway once a later NOVEL uplink of the device has been received.
C15_AckedSeqLeavesWindow ==
    \A d \in SimDevices :
        \A n \in EmittedBefore(d, LastNovelReceipt(d)) :
            AckedBy(downlinks[n].packet) \cap DOMAIN pending_acks[d] = {}


(***************************************************************************)
(* Reproducibility.                                                        *)
(***************************************************************************)
\* The commands with the time synchronisations among them built from another
\* reading of the wall clock.
RECURSIVE Reclock(_, _)
Reclock(cmds, timestamp) ==
    IF cmds = <<>> THEN <<>>
    ELSE <<IF Head(cmds).cmd_type = TimeSyncCmdType
           THEN [Head(cmds) EXCEPT !.payload = TimeSyncPayload(timestamp)]
           ELSE Head(cmds)>> \o Reclock(Tail(cmds), timestamp)

\* What the command metrics see of the commands a device takes from a frame:
\* how many there are, of which type and epoch.
RECURSIVE TypeAndEpoch(_)
TypeAndEpoch(parsed) ==
    IF parsed = <<>> THEN <<>>
    ELSE <<<<Head(parsed).cmd_type, Head(parsed).epoch_id>>>>
             \o TypeAndEpoch(Tail(parsed))

\* C16: a run with the same seeded draws gives the same metrics whatever the
\* wall clock reads: the commands a device takes from a delivered NOVEL frame
\* (they make commands_applied and the command latencies) are the ones it
\* would take from the frame of a run that differs only in the reading of
\* time.time().
C16_MetricsIndependentOfWallClock ==
    \A n \in 1..Len(downlinks) :
        (Delivered(n) /\ IsNovel(downlinks[n].packet)) =>
            \A timestamp \in WallClocks :
                TypeAndEpoch(ParseDownlinkPacket(
                    CreateNovelDownlink(downlinks[n].packet.dest_id,
                                        Reclock(downlinks[n].cmds, timestamp),
                                        downlinks[n].packet.seq_num,
                                        downlinks[n].packet.ack_bitmap,
                                        downlinks[n].packet.timestamp_ms)))
                    = TypeAndEpoch(downlinks[n].parsed)


(***************************************************************************)
(* Codec round trips.                                                      *)
(***************************************************************************)
\* C17: a NOVEL header with msg_type in 0..7, prio_class in 0..3,
\* topic_class in 0..7, seq_num in 0..65535, flags and token_short in 0..255
\* is encoded in exactly 5 bytes, and decoding these bytes gives the header
\* back, field by field.
C17_HeaderRoundTrip ==
    /\ lastOp.op = "encode" => Len(lastOp.data) = NovelHeaderSize
    /\ lastOp.op = "decode" =>
           /\ Len(lastOp.data) = NovelHeaderSize
           /\ lastOp.decoded = lastOp.header

\* A header with every field at its highest value was encoded and decoded.
C17_Witness ==
    /\ lastOp.op = "decode"
    /\ lastOp.header = [msg_type |-> 7, prio_class |-> 3, topic_class |-> 7,
                        seq_num |-> 65535, flags |-> 255, token_short |-> 255]
    /\ lastOp.data = <<255, 255, 255, 255, 255>>

\* C18: for MQTT-SN and for CoAP, the parser of the protocol takes exactly
\* one command from the downlink frame the gateway builds for a command, with
\* the cmd_type, the epoch and the payload of that command, an empty payload
\* included.
C18_BaselineDownlinkRoundTrip ==
    lastOp.op = "parse" =>
        /\ Len(lastOp.parsed) = 1
        /\ lastOp.parsed[1].cmd_type = lastOp.cmd.cmd_type
        /\ lastOp.parsed[1].epoch_id = lastOp.cmd.epoch_id
        /\ lastOp.parsed[1].payload = lastOp.cmd.payload


(***************************************************************************)
(* The acknowledgment metrics.                                             *)
(***************************************************************************)
\* C19: ack_efficiency, the quotient messages_acked / acks_sent that finalize
\* computes when acks_sent > 0, is at least 1 and at most the window size:
\* every bitmap counted had between 1 and AckWindowSize bits set.
C19_AckEfficiencyBounds ==
    LET m == metrics["novel_lpwan"]
    IN  /\ m.acks_sent > 0 =>
               /\ m.messages_acked >= m.acks_sent
               /\ m.messages_acked <= AckWindowSize * m.acks_sent
        /\ m.acks_sent = 0 => m.messages_acked = 0

\* Two bitmaps were sent, one of them with all AckWindowSize bits set.
C19_Witness ==
    /\ metrics["novel_lpwan"].acks_sent = 2
    /\ metrics["novel_lpwan"].messages_acked = AckWindowSize + 1
    /\ \E n \in 1..Len(downlinks) :
           /\ downlinks[n].phase = "done"
           /\ PopCount(downlinks[n].packet.ack_bitmap) = AckWindowSize


(***************************************************************************)
(* Scenario S1.                                                            *)
(***************************************************************************)
\* env.run(until=duration) has returned: no process is due before the end.
RunIsOver == \A u \in DueTimes : u >= config.duration_ms

\* C20: at the end of a run of scenario S1 exactly 10 uplinks were
\* transmitted, all of them successfully (delivery_rate = uplink_success /
\* (uplink_success + uplink_failed) = 1.0).
C20_TenUplinksDelivered ==
    RunIsOver =>
        /\ metrics["novel_lpwan"].uplink_success = 10
        /\ metrics["novel_lpwan"].uplink_failed = 0


(***************************************************************************)
(* The summary.                                                            *)
(***************************************************************************)
\* C21: at the end of a run in which the device sent NOVEL uplinks and no
\* NOVEL downlink was emitted (no ACK bitmap sent), the ack_efficiency the
\* summary reports for novel_lpwan is 0.
C21_NoAckMeansZeroEfficiency ==
    (/\ RunIsOver
     /\ metrics["novel_lpwan"].uplink_success > 0
     /\ \A n \in 1..Len(downlinks) : downlinks[n].tx_ms = Never
     /\ metrics["novel_lpwan"].acks_sent = 0) =>
        SummaryAckEfficiency(metrics, "novel_lpwan").num = 0


(***************************************************************************)
(* The expiry sweeper.                                                     *)
(***************************************************************************)
\* The positions of a queue whose entries have a deadline before t.
PastDeadline(q, t) == {i \in 1..Len(q) : q[i].deadline_ms < t}

RECURSIVE CountPastDeadline(_, _, _)
CountPastDeadline(qs, D, t) ==
    IF D = {} THEN 0
    ELSE LET d == CHOOSE x \in D : TRUE
         IN  Cardinality(PastDeadline(qs[d], t)) + CountPastDeadline(qs, D \ {d}, t)

\* A step of the gateway's loop: the next sweep is set to a later time.
IsSweep == next_cleanup' # next_cleanup

\* C22: the gateway sweeps every 60 s of virtual time (the clock never passes
\* the time of the next sweep, and a sweep happens at that time and sets the
\* next one 60 s later); a sweep removes from every queue exactly the entries
\* with deadline_ms < now, adds one to the expired-command counter per
\* removed entry, and leaves every entry with deadline_ms >= now in its queue.
C22_SweepRemovesExactlyExpired ==
    /\ [](now <= next_cleanup /\ next_cleanup % CleanupIntervalMs = 0)
    /\ [][IsSweep =>
            /\ now' = next_cleanup
            /\ next_cleanup' = next_cleanup + CleanupIntervalMs
            /\ \A d \in Devices :
                   /\ Range(queues'[d]) =
                          {queues[d][i] : i \in (1..Len(queues[d])) \ PastDeadline(queues[d], now')}
                   /\ Len(queues'[d]) =
                          Len(queues[d]) - Cardinality(PastDeadline(queues[d], now'))
            /\ commands_expired' =
                   commands_expired + CountPastDeadline(queues, Devices, now')]_vars

\* Right after a sweep that removed an entry from a queue and left one whose
\* deadline is the time of the sweep.
C22_Witness ==
    /\ now + CleanupIntervalMs = next_cleanup
    /\ commands_expired > 0
    /\ \E d \in Devices : \E i \in 1..Len(queues[d]) : queues[d][i].deadline_ms = now


\* A step of the traffic generator's command loop.
IsCommandTurn == traffic'.cmds_generated # traffic.cmds_generated

\* The queue entries whose cmd_id is at least `from`, over all devices.
CopiesFrom(qs, from) ==
    UNION {{qs[d][i] : i \in {k \in 1..Len(qs[d]) : qs[d][k].cmd_id >= from}} : d \in Devices}

SameCommand(a, b) ==
    /\ a.device_id = b.device_id
    /\ a.cmd_type = b.cmd_type
    /\ a.payload = b.payload
    /\ a.priority = b.priority
    /\ a.deadline_ms = b.deadline_ms

\* One entry per enabled protocol, in the order of the protocols, all in the
\* queue of the command's device, next to the entries that were there.
EnqueuedOncePerProtocol ==
    LET new == CopiesFrom(queues', cmd_counter)
        n == Len(config.protocols)
    IN  /\ cmd_counter' = cmd_counter + n
        /\ Cardinality(new) = n
        /\ \A k \in 1..n : \E c \in new :
               c.cmd_id = cmd_counter + k - 1 /\ c.protocol = config.protocols[k]
        /\ \E d \in SimDevices :
               /\ \A c \in new : c.device_id = d
               /\ Len(queues'[d]) = Len(queues[d]) + n
               /\ Range(queues'[d]) = Range(queues[d]) \cup new
               /\ \A e \in Devices \ {d} : queues'[e] = queues[e]

\* C23 (as amended): every command the traffic generator produces is enqueued
\* once per enabled protocol in the queue of its device, and the copies have
\* the same device, cmd_type, payload, priority and deadline; they differ in
\* the protocol tag, in cmd_id (consecutive) and in epoch_id (consecutive
\* mod 256, one per queue_command call).
C23_CopiesAgreeOnCommandFields ==
    [][IsCommandTurn =>
          /\ EnqueuedOncePerProtocol
          /\ \A a, b \in CopiesFrom(queues', cmd_counter) :
                 /\ SameCommand(a, b)
                 /\ a.created_ms = now' /\ a.retries = 0
                 /\ a.epoch_id = (b.epoch_id + a.cmd_id + EpochModulus - b.cmd_id) % EpochModulus]_vars

\* C23 (as stated): the copies of one generated command differ only in the
\* protocol tag.
C23_CopiesDifferOnlyInProtocol ==
    [][IsCommandTurn =>
          /\ EnqueuedOncePerProtocol
          /\ \A a, b \in CopiesFrom(queues', cmd_counter) :
                 [a EXCEPT !.protocol = b.protocol] = b]_vars

C23_Witness ==
    /\ traffic.cmds_generated > 0
    /\ \E d \in SimDevices :
           {queues[d][i].protocol : i \in {k \in 1..Len(queues[d]) : queues[d][k].created_ms = now}}
               = Range(config.protocols)
    /\ Len(config.protocols) = 3


\* C24: requeue_failed(cmd, now) puts cmd back into the queue of its device,
\* with one more retry counted, exactly when cmd.retries < cmd.max_retries
\* and cmd is still live (deadline_ms >= now, the test of
\* get_commands_for_device); otherwise it returns False and leaves every
\* queue and cmd.retries as they were.
C24_RequeueIffRetriesLeftAndLive ==
    lastOp.op = "requeue" =>
        LET cmd == lastOp.cmd
            live == ~IsExpired(cmd, lastOp.current_time_ms)
        IN  IF cmd.retries < cmd.max_retries /\ live
            THEN /\ lastOp.result
                 /\ lastOp.requeued = [cmd EXCEPT !.retries = @ + 1]
                 /\ \/ lastOp.requeued \in Range(lastOp.after[cmd.device_id])
                    \/ Len(lastOp.before[cmd.device_id]) >= QueueSize
            ELSE /\ ~lastOp.result
                 /\ lastOp.requeued = cmd
                 /\ lastOp.after = lastOp.before


\* How often the device applied the command of a type with an epoch.
Applications(cmd_type, epoch_id) ==
    Cardinality({i \in 1..Len(applied_log) :
                    /\ applied_log[i].cmd_type = cmd_type
                    /\ applied_log[i].epoch_id = epoch_id})

\* The epoch the gateway issued last for a command type of device d.
IssuedEpoch(d, cmd_type) == DictGet(device_sessions[d].epochs, cmd_type, 0)

\* Nothing is on its way to device d.
AllHandled(d) == queues[d] = <<>> /\ devices[d].pending_commands = <<>>

\* C25: scenario S3 at the device.  Once the commands of one type with
\* epochs e1 < e2 have been delivered in that order, each has been applied
\* exactly once, also after any number of later deliveries of either; and
\* handling such a later delivery applies nothing and leaves the stored
\* epochs as they were.
C25_EachEpochAppliedOnce ==
    /\ [](\A d \in SimDevices, ct \in {c.cmd_type : c \in config.traffic_commands} :
            (AllHandled(d) /\ IssuedEpoch(d, ct) >= 2) =>
                /\ \A e \in 1..IssuedEpoch(d, ct) : Applications(ct, e) = 1
                /\ DictGet(devices[d].epoch_ids, ct, 0) = IssuedEpoch(d, ct))
    /\ [][(lastOp'.op = "process" /\ lastOp.op = "redeliver") =>
             /\ lastOp'.applied = <<>>
             /\ applied_log' = applied_log
             /\ \A d \in SimDevices : devices'[d].epoch_ids = devices[d].epoch_ids]_vars

C25_Witness ==
    /\ lastOp.op = "process"
    /\ lastOp.redelivery
    /\ \E i \in 1..Len(lastOp.cmds) :
           lastOp.cmds[i].cmd_type = EpochCmdType /\ lastOp.cmds[i].epoch_id = 1
    /\ Applications(EpochCmdType, 1) = 1
    /\ Applications(EpochCmdType, 2) = 1
    /\ Len(applied_log) = 2


\* C26: the device's parser, run on the NOVEL downlink frame the gateway
\* builds for a list of up to 3 commands and any (ack_base, ack_bitmap),
\* returns the same commands in the same order with the same cmd_type, epoch
\* and payload.
C26_NovelDownlinkRoundTrip ==
    lastOp.op = "parse_novel" => lastOp.parsed = AsParsed(lastOp.commands)


\* The entries of an outstanding set that come first in sequence order mod
\* 2^16: every other entry is less than half the sequence space ahead.
OldestSeqs(seqs) ==
    {s \in seqs : \A t \in seqs : (t - s + SeqModulus) % SeqModulus < SeqModulus \div 2}

\* C27: generate_ack_bitmap returns as ack_base the oldest outstanding
\* sequence number in sequence order mod 2^16, also across the wrap from
\* 65535 to 0; bit i of the bitmap is set exactly when (ack_base + i) mod 2^16
\* is outstanding, for i below the window size; with nothing outstanding the
\* result is (0, 0).
C27_AckBaseIsOldestOutstanding ==
    lastOp.op = "generate_ack_bitmap" =>
        LET seqs == DOMAIN lastOp.pending
            r == lastOp.result
        IN  IF seqs = {} THEN r.ack_base = 0 /\ r.ack_bitmap = 0
            ELSE /\ r.ack_base \in OldestSeqs(seqs)
                 /\ r.ack_bitmap < Pow2(AckWindowSize)
                 /\ \A i \in 0..(AckWindowSize - 1) :
                        BitSet(r.ack_bitmap, i) <=> ((r.ack_base + i) % SeqModulus \in seqs)


\* The uplinks of a device that have ended, and those of them the gateway
\* handled as NOVEL uplinks, as positions of uplinks_log.
UplinksOf(d) == {i \in 1..Len(uplinks_log) : uplinks_log[i].device_id = d}

NovelReceipts(d) ==
    {i \in UplinksOf(d) : uplinks_log[i].protocol = "novel_lpwan" /\ uplinks_log[i].success}

\* b comes after a in sequence order mod 2^16.
SeqAfter(a, b) == (b - a + SeqModulus) % SeqModulus \in 1..(SeqModulus \div 2 - 1)

\* C28: per device, the gateway handles the uplinks in the order the device
\* sent them.  The NOVEL sequence numbers it records for a device are
\* strictly increasing mod 2^16, last_seq_uplink is the one recorded last,
\* and no uplink of a device starts before the device's previous uplink has
\* ended and been handed to the gateway.
C28_UplinksHandledInSendOrder ==
    \A d \in SimDevices :
        /\ \A i, j \in NovelReceipts(d) :
               i < j => SeqAfter(uplinks_log[i].seq_num, uplinks_log[j].seq_num)
        /\ \A i \in NovelReceipts(d) :
               (\A j \in NovelReceipts(d) : j <= i) =>
                   device_sessions[d].last_seq_uplink = uplinks_log[i].seq_num
        /\ \A i, j \in UplinksOf(d) :
               i < j => uplinks_log[i].done_ms <= uplinks_log[j].done_ms - uplinks_log[j].airtime_ms
        /\ devices[d].pc = "tx" =>
               \A i \in UplinksOf(d) : uplinks_log[i].done_ms <= devices[d].due - devices[d].airtime_ms

C28_Witness ==
    \E d \in SimDevices : \E i, j \in NovelReceipts(d) :
        /\ i < j
        /\ uplinks_log[j].seq_num = uplinks_log[i].seq_num + 1
        /\ device_sessions[d].last_seq_uplink = uplinks_log[j].seq_num


\* A step in which queue_command ran.
IsQueueCommand == cmd_counter' # cmd_counter

\* C29: every queue_command for a (device, cmd_type) gives the command the
\* epoch (epoch stored for the pair + 1) mod 256, 1 for the first, and stores
\* it; the stored epochs of the other pairs stay as they are, so two
\* consecutive commands of a pair never get the same epoch.
C29_EpochIsPreviousPlusOne ==
    [][IsQueueCommand =>
          /\ lastOp'.op = "issue"
          /\ LET cmd == lastOp'.cmd
                 d == cmd.device_id
                 previous == IF device_sessions[d].present /\ cmd.cmd_type \in DOMAIN device_sessions[d].epochs
                             THEN device_sessions[d].epochs[cmd.cmd_type] ELSE 0
             IN  /\ cmd.epoch_id = (previous + 1) % EpochModulus
                 /\ cmd.epoch_id # previous
                 /\ cmd.epoch_id \in 0..(EpochModulus - 1)
                 /\ device_sessions'[d].epochs[cmd.cmd_type] = cmd.epoch_id
                 /\ \A ct \in DOMAIN device_sessions[d].epochs :
                        ct # cmd.cmd_type =>
                            device_sessions'[d].epochs[ct] = device_sessions[d].epochs[ct]
                 /\ \E i \in 1..Len(queues'[d]) : queues'[d][i] = cmd]_vars

\* The epoch of EpochCmdType has wrapped: 256 commands of the type were issued.
C29_Witness ==
    /\ lastOp.op = "issue"
    /\ lastOp.cmd.cmd_type = EpochCmdType
    /\ lastOp.cmd.epoch_id = 0
    /\ cmd_counter >= EpochModulus
    /\ device_sessions[lastOp.cmd.device_id].epochs[EpochCmdType] = 0

\* C30: a NOVEL command the gateway has newly issued is applied by the device
\* it is delivered to, also after the gateway's 8-bit epoch of the command
\* type has wrapped past 255.
C30_NewCommandAppliedAfterWrap ==
    lastOp.op = "process" =>
        /\ Len(lastOp.applied) = Len(lastOp.cmds)
        /\ \A i \in 1..Len(lastOp.cmds) :
               /\ lastOp.applied[i].cmd_type = lastOp.cmds[i].cmd_type
               /\ lastOp.applied[i].epoch_id = lastOp.cmds[i].epoch_id


\* C31: a NOVEL command delivered to a device is discarded only if the
\* device has already applied a command with the same cmd_type and epoch;
\* the scheduler's priority order never makes the device discard a command
\* it has not applied.
C31_DiscardedOnlyIfApplied ==
    lastOp.op = "process" =>
        \A i \in 1..Len(lastOp.cmds) :
            Applications(lastOp.cmds[i].cmd_type, lastOp.cmds[i].epoch_id) >= 1


\* C32: a frame shorter than the minimum of its codec is rejected (a NOVEL
\* header under 5 bytes raises ValueError, the three parsers return no
\* command), it changes nothing the device keeps for its protocols, and it is
\* dropped: it acknowledges nothing and is not counted as a frame the device
\* received, but as a decode failure.
C32_ShortFrameDropped ==
    lastOp.op = "receive_short" =>
        LET d == lastOp.device_id
            proto_name == lastOp.packet.protocol
            before == lastOp.device_before
        IN  /\ lastOp.parsed = <<>>
            /\ (proto_name = "novel_lpwan" /\ Len(lastOp.packet.payload) < NovelHeaderSize)
                   => lastOp.header = ValueError
            /\ devices[d].pending_commands = before.pending_commands
            /\ devices[d].epoch_ids = before.epoch_ids
            /\ devices[d].next_seq_uplink = before.next_seq_uplink
            /\ metrics["novel_lpwan"].acks_received
                   = lastOp.metrics_before["novel_lpwan"].acks_received
            /\ metrics[proto_name].rx_count = lastOp.metrics_before[proto_name].rx_count


\* The uplinks the gateway received, in the order it received them: the
\* k-th of them is the one that made uplink_count k.
RECURSIVE ReceivedOf(_)
ReceivedOf(log) ==
    IF log = <<>> THEN <<>>
    ELSE (IF Head(log).success THEN <<Head(log)>> ELSE <<>>) \o ReceivedOf(Tail(log))

\* C33: every downlink frame answers an uplink of the same protocol that the
\* gateway received from the frame's device (no downlink is unsolicited, and
\* a lost uplink opens no slot), and its transmission starts no earlier than
\* rx1 (1000 ms) after that uplink was received.
C33_DownlinkAnswersReceivedUplink ==
    LET received == ReceivedOf(uplinks_log)
    IN  /\ uplink_count = Len(received)
        /\ \A i \in 1..Len(downlinks) :
               LET dl == downlinks[i]
               IN  /\ dl.trigger \in 1..Len(received)
                   /\ received[dl.trigger].success
                   /\ received[dl.trigger].device_id = dl.packet.dest_id
                   /\ received[dl.trigger].protocol = dl.packet.protocol
                   /\ dl.phase = "rx_wait" => dl.due >= received[dl.trigger].done_ms + Rx1DelayMs
                   /\ dl.phase # "rx_wait" => dl.tx_ms >= received[dl.trigger].done_ms + Rx1DelayMs

\* A downlink is on the air although an uplink of its device was lost before.
C33_Witness ==
    \E i \in 1..Len(downlinks) :
        /\ downlinks[i].phase = "air"
        /\ downlinks[i].tx_ms = uplinks_log[Len(uplinks_log)].done_ms + Rx1DelayMs
        /\ \E k \in 1..Len(uplinks_log) :
               /\ ~uplinks_log[k].success
               /\ uplinks_log[k].device_id = downlinks[i].packet.dest_id


\* C34: the gateway holds a session entry only for a device from which it
\* has received an uplink, whatever commands were queued for the device.
C34_SessionOnlyAfterUplink ==
    \A d \in SimDevices :
        device_sessions[d].present =>
            \E k \in UplinksOf(d) : uplinks_log[k].success


\* The requests of device d that are in flight, as positions of uplinks_log
\* in the CoAP session specification.
CoapInflight(d) ==
    {i \in 1..Len(uplinks_log) :
        /\ uplinks_log[i].device_id = d
        /\ uplinks_log[i].confirmable
        /\ uplinks_log[i].message_id \in devices[d].coap.inflight}

\* C35: the tokens of the CoAP requests of a device that are in flight at the
\* same time are pairwise distinct.
C35_InflightTokensDistinct ==
    \A d \in SimDevices :
        \A i, j \in CoapInflight(d) :
            i # j => uplinks_log[i].token # uplinks_log[j].token


\* C36: while an uplink of a device is being transmitted the device's power
\* level is the tx power, also when a downlink arrives in between, and the
\* energy recorded for every transmission is its airtime times the tx power.
C36_TxPowerWhileTransmitting ==
    /\ \A d \in SimDevices :
           devices[d].pc = "tx" => devices[d].current_power = "tx"
    /\ \A i \in 1..Len(uplinks_log) :
           uplinks_log[i].energy_nj = uplinks_log[i].airtime_ms * PowerUw("tx")


\* C37: between the return of the device loop to sleep and its next wake-up
\* the device is at sleep power, also after a downlink it received while
\* asleep has been handled.
C37_SleepPowerWhileAsleep ==
    \A d \in SimDevices :
        devices[d].pc = "sleep" =>
            /\ devices[d].current_power = "sleep"
            /\ devices[d].is_sleeping


\* The cmd_id values in the queues and in the downlinks, one entry per
\* occurrence.
RECURSIVE IdsOf(_)
IdsOf(cmds) == IF cmds = <<>> THEN <<>> ELSE <<Head(cmds).cmd_id>> \o IdsOf(Tail(cmds))

RECURSIVE CarriedIds(_)
CarriedIds(dls) == IF dls = <<>> THEN <<>> ELSE IdsOf(Head(dls).cmds) \o CarriedIds(Tail(dls))

RECURSIVE QueuedIds(_)
QueuedIds(ds) ==
    IF ds = {} THEN <<>>
    ELSE LET d == CHOOSE x \in ds : TRUE
         IN  IdsOf(queues[d]) \o QueuedIds(ds \ {d})

RECURSIVE SumEvictions(_)
SumEvictions(ds) ==
    IF ds = {} THEN 0
    ELSE LET d == CHOOSE x \in ds : TRUE
         IN  evictions[d] + SumEvictions(ds \ {d})

\* C38: every command queue_command accepted is in exactly one place: once
\* in the queue of its own device, in exactly one downlink, removed by the
\* expiry sweeper, or evicted on overflow.  No cmd_id occurs twice.
C38_CommandConservation ==
    LET held == QueuedIds(Devices) \o CarriedIds(downlinks)
    IN  /\ \A i, j \in 1..Len(held) : i # j => held[i] # held[j]
        /\ \A i \in 1..Len(held) : held[i] \in 0..(cmd_counter - 1)
        /\ \A d \in Devices : \A i \in 1..Len(queues[d]) : queues[d][i].device_id = d
        /\ \A i \in 1..Len(downlinks) : \A k \in 1..Len(downlinks[i].cmds) :
               downlinks[i].cmds[k].device_id = downlinks[i].packet.dest_id
        /\ Len(held) + commands_expired + SumEvictions(Devices) = cmd_counter

\* All four fates have happened: a command is queued, one is carried by a
\* downlink, one was swept and one was evicted.
C38_Witness ==
    /\ \E d \in Devices : queues[d] # <<>>
    /\ \E i \in 1..Len(downlinks) : downlinks[i].cmds # <<>>
    /\ commands_expired > 0
    /\ SumEvictions(Devices) > 0


\* The messages of device d, named by the time queue_uplink stored them:
\* those in pending_uplinks, and those a packet was transmitted for.
PendingMessages(d) ==
    {devices[d].pending_uplinks[i].created_ms : i \in 1..Len(devices[d].pending_uplinks)}

TransmittedMessages(d) == {uplinks_log[i].created_ms : i \in UplinksOf(d)}

SentOn(d, proto_name, created_ms) ==
    {i \in UplinksOf(d) : /\ uplinks_log[i].protocol = proto_name
                          /\ uplinks_log[i].created_ms = created_ms}

\* No message was skipped, sent twice for a protocol, or removed before it
\* was sent on every enabled protocol.
UplinksSentOncePerProtocol ==
    \A d \in SimDevices :
        /\ Cardinality(PendingMessages(d) \cup TransmittedMessages(d))
               = traffic.uplinks_generated[d]
        /\ Cardinality(PendingMessages(d)) = Len(devices[d].pending_uplinks)
        /\ \A c \in PendingMessages(d) \cup TransmittedMessages(d) :
               \A p \in Range(config.protocols) : Cardinality(SentOn(d, p, c)) <= 1
        /\ \A c \in TransmittedMessages(d) \ PendingMessages(d) :
               \A p \in Range(config.protocols) : Cardinality(SentOn(d, p, c)) = 1

\* C39: every message queued with queue_uplink is transmitted exactly once
\* per enabled protocol and then removed from pending_uplinks; none is
\* skipped, sent twice for a protocol or removed early, and by the end of
\* the run none is left waiting.
C39_EveryQueuedUplinkSent ==
    /\ UplinksSentOncePerProtocol
    /\ RunIsOver => \A d \in SimDevices : devices[d].pending_uplinks = <<>>


\* The sequence numbers a call of mark_acked took out of the device's map,
\* and those the bits below the window size of a bitmap name from a base.
MarkAckedRemoved ==
    DOMAIN lastOp.before[lastOp.device_id] \ DOMAIN pending_acks[lastOp.device_id]

NamedBy(base, bitmap) ==
    {(base + i) % SeqModulus : i \in {j \in 0..(AckWindowSize - 1) : BitSet(bitmap, j)}}

\* What mark_acked leaves alone: the other entries of the device's map, with
\* their times, and the maps of the other devices.
MarkAckedKeepsTheRest ==
    LET d == lastOp.device_id
    IN  /\ DOMAIN pending_acks[d] \subseteq DOMAIN lastOp.before[d]
        /\ \A seq \in DOMAIN pending_acks[d] : pending_acks[d][seq] = lastOp.before[d][seq]
        /\ \A e \in Devices \ {d} : pending_acks[e] = lastOp.before[e]

\* C40: mark_acked(device_id, bitmap, base) removes from the device's map
\* exactly the pending sequence numbers (base + i) mod 2^16 of the set bits
\* i < W of bitmap and leaves everything else as it was; called with the
\* bitmap and the base generate_ack_bitmap has just returned for the device
\* it removes exactly the sequence numbers that bitmap covered.
C40_MarkAckedRemovesNamed ==
    lastOp.op = "mark_acked" =>
        LET pending == DOMAIN lastOp.before[lastOp.device_id]
        IN  /\ MarkAckedRemoved = NamedBy(lastOp.base, lastOp.bitmap) \cap pending
            /\ MarkAckedKeepsTheRest
            /\ lastOp.generated =>
                   MarkAckedRemoved =
                       {seq \in pending :
                           (seq - lastOp.base) % SeqModulus < AckWindowSize}

\* The statement with the arguments in the order mark_acked(device, base,
\* bitmap): the second argument of the call is the base, the third the
\* bitmap.
C40_SecondArgumentIsBase ==
    lastOp.op = "mark_acked" =>
        /\ MarkAckedRemoved = NamedBy(lastOp.args[2], lastOp.args[3])
                                  \cap DOMAIN lastOp.before[lastOp.device_id]
        /\ MarkAckedKeepsTheRest

\* mark_acked was called with what generate_ack_bitmap returned across the
\* wrap: it removed some pending numbers and left one outside the window,
\* while the other device has numbers pending.
C40_Witness ==
    /\ lastOp.op = "mark_acked"
    /\ lastOp.generated
    /\ MarkAckedRemoved # {}
    /\ DOMAIN pending_acks[lastOp.device_id] # {}
    /\ \E e \in Devices \ {lastOp.device_id} : DOMAIN pending_acks[e] # {}

==========================================================================
